---- MODULE Spec2Model ----
(***************************************************************************)
(* Model of PracticaLlmBench: the Semaphore gate (utils/Semaphore.ts), the *)
(* adapter calls that run under it (BaseLLMAdapter, OpenAIAdapter,         *)
(* MLXAdapter, OllamaAdapter) and the stream decoders (readSSEResponse,    *)
(* readToolSSEResponse, performOllamaStream), the text helpers             *)
(* (extractJSON, sanitizeJSON, substituteTemplate, preparePrompt) and the  *)
(* task runner (DiagnosticLLMProxy, BaseTask.run, runTask).                *)
(*                                                                         *)
(* The module holds several specifications over one set of variables:      *)
(*   Spec       the gate under run(fn) calls with an arbitrary fn          *)
(*   LiveSpec   Spec with the scheduling fairness of the event loop and    *)
(*              the hypothesis that every fn settles                       *)
(*   CallSpec   adapter calls (complete, stream, completeWithTools) under  *)
(*              the gate, each with its transport exchange and timer       *)
(*   FairCallSpec  CallSpec with the fairness of the event loop and timers *)
(*   RetrySpec  the adapter calls taken one at a time, with the count of   *)
(*              requests and failures of each call                         *)
(*   DecodeSpec one response body, cut into chunks, read by one of the     *)
(*              three stream decoders                                      *)
(*   ExtractSpec   one text given to BaseTask.extractJSON or to            *)
(*              BaseLLMAdapter.extractJSON                                 *)
(*   TemplateSpec  one template and its variables rendered by              *)
(*              preparePrompt, then sent                                   *)
(*   RunnerSpec one call of DiagnosticLLMProxy.complete or of runTask      *)
(*   SuiteSpec  one call of BenchmarkSuite.run over its tasks and models   *)
(* Each specification leaves the variables of the other parts unchanged.   *)
(***************************************************************************)
EXTENDS Integers, Sequences, FiniteSets, TLC

VARIABLES
    \* ---- Semaphore (utils/Semaphore.ts)
    maxConcurrency,   \* Semaphore.maxConcurrency (constructor argument)
    active,           \* Semaphore.active
    queue,            \* Semaphore.queue: the resolvers, named by their caller
    \* ---- one run(fn) call per caller
    pc,               \* position of each caller inside run()
    fnOutcome,        \* how the caller's fn settled: [kind, val]
    result,           \* what run() handed back to its caller: [kind, val]
    \* ---- history of the gate (observations, never read by the program)
    arrivals,         \* callers in the order of their acquire() calls
    grants,           \* callers in the order in which a slot was marked theirs
    waited,           \* callers whose acquire() had to queue
    lateArrival,      \* callers that called acquire() during a pending hand-off
    acquired,         \* number of slots marked active so far
    released,         \* number of release() calls so far
    \* ---- adapter calls (BaseLLMAdapter and its subclasses)
    adapter,          \* which adapter class the instance is
    maxRetries,       \* OpenAIAdapter.maxRetries
    op,               \* the public method each caller invoked
    attempt,          \* performComplete's loop variable, per caller
    timerArmed,       \* whether the call's abort timer is pending
    \* ---- history of the adapter calls (observations, except lastError)
    requests,         \* transport requests (fetch calls) each call has issued
    failed,           \* attempts of each call that threw
    lastError,        \* the error the last failed attempt threw
    partial,          \* the current request has given a delta to onChunk
    chunkCalls,       \* onChunk calls made for the first delta of the response
    raw,              \* the text performComplete returned to complete()
    waits,            \* the backoff waits each call has begun, in ms, in order
    \* ---- one streamed response being decoded
    framing,          \* which decode loop reads it: "sse", "tool" or "ndjson"
    frames,           \* the frames the backend sent (observation only)
    wire,             \* the text of the response body
    chunks,           \* the chunks reader.read() has still to deliver
    delivered,        \* the chunks it has delivered (observation only)
    dec,              \* the locals of the decode loop
    dpc,              \* "reading" until the loop and the flush have ended
    \* ---- one call of a helper function or of the task runner
    arg,              \* the arguments of the call
    ret,              \* what it returned or threw
    ppc,              \* which function was applied ("ready" before the call)
    proxy,            \* the DiagnosticLLMProxy: lastCall, and its call in flight
    run,              \* runTask's locals, and what was thrown inside its try
    suite             \* BenchmarkSuite.run: its locals, position and result

gateVars == <<maxConcurrency, active, queue>>
callVars == <<pc, fnOutcome, result>>
histVars == <<arrivals, grants, waited, lateArrival, acquired, released>>
xchgVars == <<adapter, maxRetries, op, attempt, timerArmed>>
retryVars == <<requests, failed, lastError, partial, chunkCalls, raw, waits>>
decVars == <<framing, frames, wire, chunks, delivered, dec, dpc>>
pureVars == <<arg, ret, ppc, proxy, run, suite>>
vars == <<gateVars, callVars, histVars, xchgVars, retryVars, decVars, pureVars>>
\* what the gate, the adapter calls, the decoders and the helper functions
\* each leave alone
outsideGate == <<retryVars, decVars, pureVars>>
outsideCall == <<decVars, pureVars>>
outsideDecoder == <<gateVars, callVars, histVars, xchgVars, retryVars, pureVars>>
outsidePure == <<gateVars, callVars, histVars, xchgVars, retryVars, decVars, suite>>
outsideSuite == <<gateVars, callVars, histVars, xchgVars, retryVars, decVars,
                  arg, ret, ppc, proxy, run>>

(***************************************************************************)
(* Bounds of the model.                                                    *)
(***************************************************************************)
NumCallers == 3
MaxLimit == 2
NumAdapterCalls == 2

Callers == 1..NumCallers
Values == {"v1"}
Errors == {"e1"}
NoOutcome == [kind |-> "none", val |-> "none"]

\* performComplete has not returned
NoRaw == [read |-> FALSE, text |-> <<>>]
\* no adapter call has issued a request
NoRequests ==
    /\ requests = [c \in Callers |-> 0]
    /\ failed = [c \in Callers |-> 0]
    /\ lastError = [c \in Callers |-> "none"]
    /\ partial = [c \in Callers |-> FALSE]
    /\ chunkCalls = [c \in Callers |-> 0]
    /\ raw = [c \in Callers |-> NoRaw]
    /\ waits = [c \in Callers |-> <<>>]

\* no helper function is being applied
NoRet == [kind |-> "none", val |-> <<>>, err |-> "none"]
\* lastCall: LLMCallRecord | null = null
NoCall == [set |-> FALSE, renderedPrompt |-> <<>>, promptCharCount |-> 0,
           options |-> {}, rawOutput |-> <<>>, outputCharCount |-> 0]
\* the inner adapter has not been called
NoInner == [called |-> FALSE, prompt |-> <<>>, variables |-> <<>>,
            given |-> FALSE, options |-> {}]
NewProxy == [lastCall |-> NoCall, renderedPrompt |-> <<>>, inner |-> NoInner]
\* nothing parsed, nothing validated, nothing thrown
NoRun == [output |-> NoRet, verdict |-> [given |-> FALSE, pass |-> FALSE, message |-> "none"],
          thrown |-> "none"]
\* a quotient of two numbers, kept as the pair it was computed from
Ratio(n, d) == [num |-> n, den |-> d]
\* the literal 0 of an empty average or rate
Zero == Ratio(0, 1)
\* no suite is running, nothing returned
NoSuiteResult == [returned |-> FALSE, tasks |-> <<>>, totalTasks |-> 0, totalRuns |-> 0,
                  overallPassRate |-> Zero]
NoSuite == [pc |-> "idle", models |-> 0, tasksToRun |-> <<>>, task |-> 0, model |-> 0,
            runs |-> <<>>, taskResults |-> <<>>, totalRuns |-> 0, totalPassed |-> 0,
            result |-> NoSuiteResult]
NoProxyCall ==
    /\ proxy = NewProxy
    /\ run = NoRun
    /\ suite = NoSuite
PureIdle ==
    /\ arg = <<>>
    /\ ret = NoRet
    /\ ppc = "idle"
    /\ NoProxyCall

\* no response is being decoded
DecoderIdle ==
    /\ framing = "none"
    /\ frames = <<>>
    /\ wire = <<>>
    /\ chunks = <<>>
    /\ delivered = <<>>
    /\ dec = <<>>
    /\ dpc = "idle"

(***************************************************************************)
(* Semaphore                                                               *)
(***************************************************************************)
\* constructor: throws unless maxConcurrency >= 1
ValidLimit(n) == n >= 1

\* pending / running getters
pending == Len(queue)
running == active

\* acquire(): the caller enters at once while active < maxConcurrency
CanEnterOffByOne(a, limit) == a <= limit
CanEnter(a, limit) == a < limit

\* acquire(): `entered` tells whether the returned promise is already resolved
Acquire(a, q, limit, c) ==
    IF CanEnter(a, limit)
    THEN [active |-> a + 1, queue |-> q, entered |-> TRUE]
    ELSE [active |-> a, queue |-> Append(q, c), entered |-> FALSE]

\* queue.shift() (and, as a slip, queue.pop())
PopQueue(q) == [next |-> <<q[Len(q)]>>, rest |-> SubSeq(q, 1, Len(q) - 1)]
ShiftQueue(q) ==
    IF q = <<>> THEN [next |-> <<>>, rest |-> <<>>]
    ELSE [next |-> <<Head(q)>>, rest |-> Tail(q)]

ReleaseLIFO(a, q) ==
    IF q = <<>> THEN [active |-> a - 1, queue |-> q, woken |-> <<>>]
    ELSE [active |-> a, queue |-> PopQueue(q).rest, woken |-> PopQueue(q).next]
ReleaseNoRecount(a, q) ==
    [active |-> a - 1, queue |-> ShiftQueue(q).rest, woken |-> ShiftQueue(q).next]
ReleaseForgetsWaiter(a, q) ==
    [active |-> a - 1, queue |-> q, woken |-> <<>>]
\* release(): active--; next = queue.shift(); if (next) { active++; next() }
\* `woken` holds the caller whose resolver was called, if any
Release(a, q) ==
    LET next == ShiftQueue(q).next
    IN  [active |-> IF next # <<>> THEN (a - 1) + 1 ELSE a - 1,
         queue  |-> ShiftQueue(q).rest,
         woken  |-> next]

\* a waiter whose resolver has been called and whose continuation has not run
HandoffPending == \E d \in Callers : pc[d] = "granted" /\ d \in waited

\* run(): await this.acquire()   -- acquire() itself runs synchronously
Enter(c) ==
    LET r == Acquire(active, queue, maxConcurrency, c) IN
    /\ pc[c] = "idle"
    /\ active' = r.active
    /\ queue' = r.queue
    /\ pc' = [pc EXCEPT ![c] = IF r.entered THEN "granted" ELSE "waiting"]
    /\ arrivals' = Append(arrivals, c)
    /\ grants' = IF r.entered THEN Append(grants, c) ELSE grants
    /\ acquired' = IF r.entered THEN acquired + 1 ELSE acquired
    /\ waited' = IF r.entered THEN waited ELSE waited \cup {c}
    /\ lateArrival' = IF HandoffPending THEN lateArrival \cup {c} ELSE lateArrival
    /\ UNCHANGED <<maxConcurrency, fnOutcome, result, released>>

Call(c) == Enter(c) /\ UNCHANGED <<xchgVars, outsideGate>>

\* run(): the continuation of `await this.acquire()`: fn() is called
Resume(c) ==
    /\ pc[c] = "granted"
    /\ pc' = [pc EXCEPT ![c] = "running"]
    /\ UNCHANGED <<gateVars, fnOutcome, result, histVars, xchgVars>>
    /\ UNCHANGED outsideGate

\* fn() fulfils with value v
FnReturn(c, v) ==
    /\ pc[c] = "running"
    /\ pc' = [pc EXCEPT ![c] = "settled"]
    /\ fnOutcome' = [fnOutcome EXCEPT ![c] = [kind |-> "value", val |-> v]]
    /\ UNCHANGED <<gateVars, result, histVars, xchgVars>>
    /\ UNCHANGED outsideGate

\* fn() throws or rejects with error e
FnThrow(c, e) ==
    /\ pc[c] = "running"
    /\ pc' = [pc EXCEPT ![c] = "settled"]
    /\ fnOutcome' = [fnOutcome EXCEPT ![c] = [kind |-> "error", val |-> e]]
    /\ UNCHANGED <<gateVars, result, histVars, xchgVars>>
    /\ UNCHANGED outsideGate

\* the effect of one release() call on the gate and on the woken waiter
DoRelease(c) ==
    LET r == Release(active, queue) IN
    /\ active' = r.active
    /\ queue' = r.queue
    /\ released' = released + 1
    /\ grants' = grants \o r.woken
    /\ acquired' = acquired + Len(r.woken)
    /\ pc' = [d \in Callers |->
                IF d = c THEN "done"
                ELSE IF r.woken = <<d>> THEN "granted"
                ELSE pc[d]]

\* a run() whose release sits after the await instead of in a finally block
ExitWithoutFinally(c) ==
    /\ pc[c] = "settled"
    /\ IF fnOutcome[c].kind = "value"
       THEN DoRelease(c)
       ELSE /\ pc' = [pc EXCEPT ![c] = "done"]
            /\ UNCHANGED <<active, queue, released, grants, acquired>>
    /\ result' = [result EXCEPT ![c] = fnOutcome[c]]
    /\ UNCHANGED <<maxConcurrency, fnOutcome, arrivals, waited, lateArrival>>
    /\ UNCHANGED xchgVars
    /\ UNCHANGED outsideGate
\* run(): finally { this.release() }, then fn's value or error goes to the caller
Exit(c) ==
    /\ pc[c] = "settled"
    /\ DoRelease(c)
    /\ result' = [result EXCEPT ![c] = fnOutcome[c]]
    /\ UNCHANGED <<maxConcurrency, fnOutcome, arrivals, waited, lateArrival>>
    /\ UNCHANGED xchgVars
    /\ UNCHANGED outsideGate

Init ==
    /\ maxConcurrency \in {n \in 1..MaxLimit : ValidLimit(n)}
    /\ active = 0
    /\ queue = <<>>
    /\ pc = [c \in Callers |-> "idle"]
    /\ fnOutcome = [c \in Callers |-> NoOutcome]
    /\ result = [c \in Callers |-> NoOutcome]
    /\ arrivals = <<>>
    /\ grants = <<>>
    /\ waited = {}
    /\ lateArrival = {}
    /\ acquired = 0
    /\ released = 0
    /\ adapter = "none"
    /\ maxRetries = 0
    /\ op = [c \in Callers |-> "none"]
    /\ attempt = [c \in Callers |-> 0]
    /\ timerArmed = [c \in Callers |-> FALSE]
    /\ NoRequests
    /\ DecoderIdle
    /\ PureIdle

Next ==
    \/ \E c \in Callers : Call(c)
    \/ \E c \in Callers : Resume(c)
    \/ \E c \in Callers, v \in Values : FnReturn(c, v)
    \/ \E c \in Callers, e \in Errors : FnThrow(c, e)
    \/ \E c \in Callers : Exit(c)

Spec == Init /\ [][Next]_vars

\* fn settles (the hypothesis "every call that holds a slot eventually finishes")
FnSettles(c) ==
    \/ \E v \in Values : FnReturn(c, v)
    \/ \E e \in Errors : FnThrow(c, e)

\* The event loop runs every ready continuation: the one after `await
\* this.acquire()` and the finally block after fn settled.
LiveSpec ==
    /\ Spec
    /\ \A c \in Callers : WF_vars(Resume(c))
    /\ \A c \in Callers : WF_vars(Exit(c))
    /\ \A c \in Callers : WF_vars(FnSettles(c))

(***************************************************************************)
(* Adapter calls: BaseLLMAdapter.complete / stream / completeWithTools run *)
(* their body as the fn of semaphore.run().  The body is one transport     *)
(* exchange (several, under OpenAIAdapter's retry loop): a fetch guarded   *)
(* by an abort timer, then the read of the response body.                  *)
(***************************************************************************)
DefaultMaxRetries == 3

AdapterCallers == 1..NumAdapterCalls
\* the callers of the specification that takes the calls one at a time
NumRetryCalls == 1
RetryCallers == 1..NumRetryCalls
Adapters == {"openai", "mlx", "ollama"}
Ops == {"complete", "stream", "completeWithTools"}
\* the responses outside 2xx a backend gives: the status and, for the last
\* two, an error body that holds the text "401" or "invalid_api_key"
HttpErrors == {"http401", "http429", "http500", "http500_401", "http403_key"}
AttemptErrors == HttpErrors \cup {"network", "timeout"}

\* error.message of the Error an exchange throws, as its parts:
\* `OpenAI API error (${status}): ${err}`, `Rate Limited (429): ${err}`,
\* `Request timed out after ${timeoutMs}ms`, and fetch's own 'fetch failed'
Message(e) ==
    CASE e = "http401" -> <<"OpenAI API error (", "401", "): ">>
      [] e = "http429" -> <<"Rate Limited (", "429", "): ">>
      [] e = "http500" -> <<"OpenAI API error (", "500", "): ">>
      [] e = "http500_401" -> <<"OpenAI API error (", "500", "): ", "401">>
      [] e = "http403_key" -> <<"OpenAI API error (", "403", "): ", "invalid_api_key">>
      [] e = "timeout" -> <<"Request timed out after ", "30000", "ms">>
      [] OTHER -> <<"fetch failed">>
\* msg.includes(text)
Includes(msg, text) == \E i \in 1..Len(msg) : msg[i] = text

\* OpenAIAdapter.performComplete / performCompleteWithTools loop over attempts;
\* performStream, and every method of the other adapters, make one exchange
RetriedAlsoStream(ad, o) == ad = "openai"
Retried(ad, o) == ad = "openai" /\ o \in {"complete", "completeWithTools"}

\* BaseLLMAdapter.performCompleteWithTools: the default throws; MLXAdapter
\* does not override it
Unsupported(ad, o) == ad = "mlx" /\ o = "completeWithTools"

\* const backoff = Math.pow(2, attempt) * 1000, in ms
MsPerSecond == 1000
BackoffFromOne(a) == 2 ^ (a - 1) * MsPerSecond
Backoff(a) == 2 ^ a * MsPerSecond

\* isFatal: msg.includes('401') || msg.includes('invalid_api_key')
IsFatalNever(e) == FALSE
IsFatal(e) == Includes(Message(e), "401") \/ Includes(Message(e), "invalid_api_key")

\* The timer of an exchange after fetch() has resolved.  OpenAIAdapter and
\* MLXAdapter call clearTimeout(id) right after `await fetch`; OllamaAdapter
\* passes AbortSignal.timeout(timeoutMs), which stays pending during the body.
TimerAfterHeaders(ad) == ad = "ollama"

\* what waits are pending in each position of an exchange
Awaiting == {"connecting", "errbody", "reading"}
HoldsSlot(c) ==
    pc[c] \in {"granted", "running", "connecting", "errbody", "reading",
               "backoff", "settled"}

\* public method called: semaphore.run(async () => ...)
AdapterCall(c, o) ==
    /\ Enter(c)
    /\ op' = [op EXCEPT ![c] = o]
    /\ UNCHANGED <<adapter, maxRetries, attempt, timerArmed>>
    /\ UNCHANGED retryVars
    /\ UNCHANGED outsideCall

Settle(c, kind, val) ==
    /\ pc' = [pc EXCEPT ![c] = "settled"]
    /\ fnOutcome' = [fnOutcome EXCEPT ![c] = [kind |-> kind, val |-> val]]
    /\ timerArmed' = [timerArmed EXCEPT ![c] = FALSE]

\* fn starts: preparePrompt, then performComplete / performStream /
\* performCompleteWithTools up to the first await
StartFn(c) ==
    /\ pc[c] = "granted"
    /\ IF Unsupported(adapter, op[c])
       THEN Settle(c, "error", "unsupported") /\ UNCHANGED <<attempt, requests>>
       ELSE IF Retried(adapter, op[c]) /\ ~(1 <= maxRetries)
       THEN \* the loop body never runs: throw new Error('Failed after max retries')
            Settle(c, "error", "failed") /\ UNCHANGED <<attempt, requests>>
       ELSE /\ pc' = [pc EXCEPT ![c] = "connecting"]
            /\ attempt' = [attempt EXCEPT ![c] = 1]
            /\ timerArmed' = [timerArmed EXCEPT ![c] = TRUE]
            /\ requests' = [requests EXCEPT ![c] = @ + 1]
            /\ UNCHANGED fnOutcome
    /\ UNCHANGED <<failed, lastError, partial, chunkCalls, raw, waits>>
    /\ UNCHANGED <<gateVars, result, histVars, adapter, maxRetries, op>>
    /\ UNCHANGED outsideCall

\* An attempt threw e.  Under the retry loop: rethrow if fatal, go round the
\* loop while attempt < maxRetries, else throw lastError.  Elsewhere: throw.
\* (each exchange's finally block clears its timer)
AttemptFails(c, e) ==
    /\ IF Retried(adapter, op[c]) /\ ~IsFatal(e) /\ attempt[c] + 1 <= maxRetries
       THEN \* attempt++; if (attempt > 1) await setTimeout(r, backoff)
            /\ pc' = [pc EXCEPT ![c] = "backoff"]
            /\ attempt' = [attempt EXCEPT ![c] = attempt[c] + 1]
            /\ waits' = [waits EXCEPT ![c] = Append(@, Backoff(attempt[c] + 1))]
            /\ timerArmed' = [timerArmed EXCEPT ![c] = FALSE]
            /\ UNCHANGED fnOutcome
       ELSE Settle(c, "error", e) /\ UNCHANGED <<attempt, waits>>
    /\ failed' = [failed EXCEPT ![c] = @ + 1]
    /\ lastError' = [lastError EXCEPT ![c] = e]
    /\ UNCHANGED <<requests, partial, chunkCalls, raw>>
    /\ UNCHANGED <<gateVars, result, histVars, adapter, maxRetries, op>>

\* setTimeout(r, backoff) elapsed: the next attempt arms its timer and fetches
BackoffDone(c) ==
    /\ pc[c] = "backoff"
    /\ pc' = [pc EXCEPT ![c] = "connecting"]
    /\ timerArmed' = [timerArmed EXCEPT ![c] = TRUE]
    /\ requests' = [requests EXCEPT ![c] = @ + 1]
    /\ partial' = [partial EXCEPT ![c] = FALSE]
    /\ UNCHANGED <<failed, lastError, chunkCalls, raw, waits>>
    /\ UNCHANGED <<gateVars, fnOutcome, result, histVars, adapter, maxRetries,
                   op, attempt>>
    /\ UNCHANGED outsideCall

\* fetch() resolved with response.ok
FetchOk(c) ==
    /\ pc[c] = "connecting"
    /\ pc' = [pc EXCEPT ![c] = "reading"]
    /\ timerArmed' = [timerArmed EXCEPT ![c] = TimerAfterHeaders(adapter)]
    /\ UNCHANGED <<gateVars, fnOutcome, result, histVars, adapter, maxRetries,
                   op, attempt>>
    /\ UNCHANGED retryVars
    /\ UNCHANGED outsideCall

\* fetch() resolved with a status outside 2xx.  OpenAI and MLX await
\* response.text() before throwing; Ollama throws at once with statusText.
FetchNotOk(c, e) ==
    /\ pc[c] = "connecting"
    /\ IF adapter = "ollama"
       THEN AttemptFails(c, e)
       ELSE /\ pc' = [pc EXCEPT ![c] = "errbody"]
            /\ fnOutcome' = [fnOutcome EXCEPT ![c] = [kind |-> "pending", val |-> e]]
            /\ timerArmed' = [timerArmed EXCEPT ![c] = TimerAfterHeaders(adapter)]
            /\ UNCHANGED <<gateVars, result, histVars, adapter, maxRetries, op,
                           attempt>>
            /\ UNCHANGED retryVars
    /\ UNCHANGED outsideCall

\* response.text() of the error response resolved
ErrBodyRead(c) ==
    /\ pc[c] = "errbody"
    /\ AttemptFails(c, fnOutcome[c].val)
    /\ UNCHANGED outsideCall

\* fetch() rejected, or the body stream broke: a transport failure
TransportFails(c) ==
    /\ pc[c] \in Awaiting
    /\ AttemptFails(c, "network")
    /\ UNCHANGED outsideCall

\* the abort timer fired while the exchange was awaiting: the pending await
\* rejects with AbortError, rethrown as 'Request timed out after ...ms'
TimerFires(c) ==
    /\ timerArmed[c]
    /\ pc[c] \in Awaiting
    /\ AttemptFails(c, "timeout")
    /\ UNCHANGED outsideCall

(***************************************************************************)
(* Claims about the gate                                                   *)
(***************************************************************************)
IsPrefix(s, t) == Len(s) <= Len(t) /\ SubSeq(t, 1, Len(s)) = s
AllSettled == \A c \in Callers : pc[c] \in {"idle", "done"}
Granted(c) == \E i \in 1..Len(grants) : grants[i] = c

\* C1: in every reachable state the running count lies between 0 and the
\* limit the Semaphore was constructed with.
C1_RunningWithinLimit == 0 <= running /\ running <= maxConcurrency
\* C1 witness: all slots taken after a hand-off, with callers still queued.
C1_Witness == running = maxConcurrency /\ pending > 0 /\ released > 0

\* C2: whenever a caller is queued, all N slots are taken.
C2_PendingImpliesFull == pending > 0 => running = maxConcurrency
\* C2 witness: a release found a non-empty queue (the woken waiter has not
\* resumed yet) and another caller is still queued.
C2_Witness == pending > 0 /\ HandoffPending

\* C3: slots are granted in arrival order: the sequence of callers that were
\* given a slot is a prefix of the sequence of callers in the order of their
\* acquire() calls, so no caller is granted ahead of one that arrived before.
C3_GrantsInArrivalOrder == IsPrefix(grants, arrivals)
\* C3 witness: two callers had to wait and both were granted, one of them
\* having arrived while a hand-off was made and not yet resumed.
C3_Witness ==
    \E a, b \in Callers :
        /\ a # b /\ a \in waited /\ b \in waited
        /\ Granted(a) /\ Granted(b)
        /\ b \in lateArrival

\* C4: run() releases one slot per slot acquired on success and on failure
\* and hands fn's value or error on unchanged; when every started call has
\* settled, running and pending are both 0.
C4_ReleaseBalanced ==
    /\ active = acquired - released
    /\ \A c \in Callers : pc[c] = "done" =>
            /\ result[c] = fnOutcome[c]
            /\ result[c].kind \in {"value", "error"}
    /\ \A c \in Callers : pc[c] # "done" => result[c] = NoOutcome
    /\ AllSettled => running = 0 /\ pending = 0 /\ released = acquired
\* C4 witness: every call settled, one with an error and one with a value,
\* and at least one of them had been queued.
C4_Witness ==
    /\ AllSettled
    /\ \E c, d \in Callers : result[c].kind = "error" /\ result[d].kind = "value"
    /\ waited # {}

\* C5: every adapter call that holds a gate slot eventually releases it,
\* also when the backend never finishes its response: the deadline ends the
\* exchange.
C5_SlotEventuallyReleased ==
    \A c \in AdapterCallers : HoldsSlot(c) ~> ~HoldsSlot(c)

\* C6: under LiveSpec (every fn settles), every caller suspended in the
\* waiter queue is eventually granted a slot and runs its fn.
C6_NoStarvation ==
    \A c \in Callers : (pc[c] = "waiting") ~> (pc[c] = "running")
\* C6 witness: a caller that had to wait is running while another still waits.
C6_Witness ==
    \E c, d \in Callers :
        c \in waited /\ pc[c] = "running" /\ pc[d] = "waiting"

(***************************************************************************)
(* Stream decoders.                                                        *)
(*                                                                         *)
(* A response body is a sequence of text elements.  The framing characters *)
(* (newline, carriage return, blank, and the six characters of "data: ")   *)
(* are single characters; a JSON payload is written as the elements "{",   *)
(* one element per member, "}".  Chunk boundaries fall between elements.   *)
(***************************************************************************)
MaxFrames == 2

NL == "\n"
\* what trim() and \s take for whitespace
Whitespace == {" ", "\r", NL}

\* 'data: ' and trimmed.slice(6)
DataPrefix == <<"d", "a", "t", "a", ":", " ">>
DataPrefixLen == 6
DoneLine == DataPrefix \o <<"[DONE]">>

\* ---- String operations of the runtime

\* String.prototype.split('\n'): the pieces between newlines, at least one
RECURSIVE SplitAcc(_, _, _)
SplitAcc(s, cur, acc) ==
    IF s = <<>> THEN Append(acc, cur)
    ELSE IF Head(s) = NL THEN SplitAcc(Tail(s), <<>>, Append(acc, cur))
    ELSE SplitAcc(Tail(s), Append(cur, Head(s)), acc)
SplitLines(s) == SplitAcc(s, <<>>, <<>>)

\* String.prototype.trim()
RECURSIVE TrimLeft(_)
TrimLeft(s) ==
    IF s # <<>> /\ Head(s) \in Whitespace THEN TrimLeft(Tail(s)) ELSE s
RECURSIVE TrimRight(_)
TrimRight(s) ==
    IF s # <<>> /\ s[Len(s)] \in Whitespace
    THEN TrimRight(SubSeq(s, 1, Len(s) - 1)) ELSE s
Trim(s) == TrimRight(TrimLeft(s))

\* String.prototype.startsWith / slice(n)
StartsWith(s, pre) == Len(s) >= Len(pre) /\ SubSeq(s, 1, Len(pre)) = pre
Slice(s, n) == SubSeq(s, n + 1, Len(s))

\* lines.pop(): the last piece is taken off
PopLast(lines) ==
    [last |-> lines[Len(lines)], rest |-> SubSeq(lines, 1, Len(lines) - 1)]

\* ---- JSON payloads

\* members of choices[0].delta and of choices[0] in an event-stream frame
ContentMembers ==
    {"c:a", "c:bc", "c:", "c:_a", "c:thought", "c:fenced", "c:fence"}
ThinkingMembers == {"r"}
ToolCallMembers == {"t0:head", "t0:args", "t0:again", "t1:head"}
FinishMembers == {"fr:length", "fr:tool_calls", "fr:eos"}
\* an empty choices array: choices[0] is undefined
NoChoiceMembers == {"choices:[]"}
\* members of a line of the line-delimited framing
ResponseMembers == {"resp:a", "resp:bc", "resp:"}
DoneMembers == {"done"}
ChoiceMembers ==
    ContentMembers \cup ThinkingMembers \cup ToolCallMembers \cup FinishMembers
Members ==
    ChoiceMembers \cup NoChoiceMembers \cup ResponseMembers \cup DoneMembers

\* the value of a content / response member: a string of characters, in
\* which "<think>", "</think>" and "[fence]" (three backquotes) each stand
\* for that run of characters
TextOf(m) ==
    CASE m \in {"c:a", "resp:a"} -> <<"a">>
      [] m \in {"c:bc", "resp:bc"} -> <<"b", "c">>
      [] m = "c:_a" -> <<" ", "a">>
      [] m = "c:thought" -> <<"<think>", "b", "</think>">>
      [] m = "c:fenced" -> <<"[fence]", "c", " ", "[fence]">>
      [] m = "c:fence" -> <<"[fence]">>
      [] OTHER -> <<>>

\* a tool_calls entry: index, id, function.name, function.arguments
\* ("" and <<>> stand for an absent or empty member)
ToolCallOf(m) ==
    CASE m = "t0:head" -> [index |-> 0, id |-> "A", name |-> "f", arguments |-> <<>>]
      [] m = "t0:args" -> [index |-> 0, id |-> "", name |-> "", arguments |-> <<"x">>]
      [] m = "t0:again" -> [index |-> 0, id |-> "C", name |-> "h", arguments |-> <<>>]
      [] m = "t1:head" -> [index |-> 1, id |-> "B", name |-> "g", arguments |-> <<"y">>]

\* choice.finish_reason: any string the backend chooses to send
FinishOf(m) ==
    CASE m = "fr:length" -> "length"
      [] m = "fr:tool_calls" -> "tool_calls"
      [] m = "fr:eos" -> "eos"

\* JSON.parse(text): surrounding whitespace is allowed; the text is an object
\* "{" members "}" or the literal null; anything else is a SyntaxError
JSONParse(text) ==
    LET t == Trim(text) IN
    IF t = <<"null">> THEN [ok |-> TRUE, null |-> TRUE, members |-> <<>>]
    ELSE IF /\ Len(t) >= 2
            /\ t[1] = "{"
            /\ t[Len(t)] = "}"
            /\ \A i \in 2..(Len(t) - 1) : t[i] \in Members
    THEN [ok |-> TRUE, null |-> FALSE, members |-> SubSeq(t, 2, Len(t) - 1)]
    ELSE [ok |-> FALSE, null |-> FALSE, members |-> <<>>]

Has(obj, ms) == \E i \in 1..Len(obj.members) : obj.members[i] \in ms
Member(obj, ms) ==
    obj.members[CHOOSE i \in 1..Len(obj.members) :
                    /\ obj.members[i] \in ms
                    /\ \A j \in 1..(i - 1) : obj.members[j] \notin ms]
MembersIn(obj, ms) == SelectSeq(obj.members, LAMBDA m : m \in ms)

\* json.choices[0] throws a TypeError when json is null or has no choices
ChoicesThrows(obj) == obj.null \/ ~Has(obj, ChoiceMembers \cup NoChoiceMembers)
\* json.choices[0]?.delta?.content || ''
DeltaContent(obj) ==
    IF Has(obj, ContentMembers) THEN TextOf(Member(obj, ContentMembers)) ELSE <<>>
\* delta?.reasoning_content
DeltaThinking(obj) == Has(obj, ThinkingMembers)
\* json.response
ResponseText(obj) ==
    IF Has(obj, ResponseMembers) THEN TextOf(Member(obj, ResponseMembers)) ELSE <<>>

\* ---- The locals of a decode loop

NewDecoder ==
    [buffer |-> <<>>,              \* let buffer = ''
     fullText |-> <<>>,            \* let fullText = ''
     emitted |-> <<>>,             \* the arguments of the onChunk calls, in order
     firstTokenReceived |-> FALSE, \* StreamProgress.firstTokenReceived
     events |-> <<>>,              \* what StreamProgress wrote, in order
     content |-> <<>>,             \* readToolSSEResponse: let content = ''
     toolCallsMap |-> <<>>,        \* entries in insertion order
     finishReason |-> "stop",      \* readToolSSEResponse: let finishReason = 'stop'
     done |-> FALSE,               \* performOllamaStream: let done = false
     raised |-> FALSE]             \* an exception left the decode loop

\* StreamProgress.onToken / onThinking / finish
OnToken(st) ==
    IF st.firstTokenReceived THEN st
    ELSE [st EXCEPT !.firstTokenReceived = TRUE, !.events = Append(@, "ttft")]
OnThinking(st) ==
    IF st.firstTokenReceived THEN st
    ELSE [st EXCEPT !.firstTokenReceived = TRUE, !.events = Append(@, "thinking")]
Finish(st) == [st EXCEPT !.events = Append(@, "finish")]

\* fullText += content; onChunk(content)
Deliver(st, text) ==
    [st EXCEPT !.fullText = @ \o text, !.emitted = Append(@, text)]

\* try { ... } catch { }: a frame that threw is dropped, the loop goes on
CatchFrameRethrow(st, r) == IF r.threw THEN [st EXCEPT !.raised = TRUE] ELSE r.st
CatchFrame(st, r) == IF r.threw THEN st ELSE r.st

Threw(st) == [st |-> st, threw |-> TRUE]
Ran(st) == [st |-> st, threw |-> FALSE]

\* ---- readSSEResponse (BaseLLMAdapter)

\* the try block of the loop (inLoop) and of the flush after it
SSEFrame(st, payload, inLoop) ==
    LET json == JSONParse(payload) IN
    IF ~json.ok \/ ChoicesThrows(json) THEN Threw(st)
    ELSE LET s1 == IF inLoop /\ DeltaThinking(json) THEN OnThinking(st) ELSE st
             content == DeltaContent(json)
         IN  IF content # <<>>
             THEN Ran(Deliver(IF inLoop THEN OnToken(s1) ELSE s1, content))
             ELSE Ran(s1)

\* for (const line of lines) { ... }
SSELine(st, line) ==
    LET trimmed == Trim(line) IN
    IF trimmed = <<>> \/ trimmed = DoneLine THEN st
    ELSE IF StartsWith(trimmed, DataPrefix)
    THEN CatchFrame(st, SSEFrame(st, Slice(trimmed, DataPrefixLen), TRUE))
    ELSE st

\* ---- readToolSSEResponse (OpenAIAdapter)

HasIndex(map, i) == \E k \in 1..Len(map) : map[k].index = i
\* a merge that assigns the fragment to the buffer instead of appending it
MergeToolCallReplace(map, tc) ==
    LET m1 == IF HasIndex(map, tc.index) THEN map
              ELSE Append(map, [index |-> tc.index, id |-> tc.id,
                                name |-> tc.name, arguments |-> <<>>])
    IN  [k \in 1..Len(m1) |->
            IF m1[k].index # tc.index THEN m1[k]
            ELSE [index |-> m1[k].index,
                  id |-> IF tc.id # "" THEN tc.id ELSE m1[k].id,
                  name |-> IF tc.name # "" THEN tc.name ELSE m1[k].name,
                  arguments |-> tc.arguments]]
\* toolCallsMap.set(index, {...}) if absent, then the three updates
MergeToolCall(map, tc) ==
    LET m1 == IF HasIndex(map, tc.index) THEN map
              ELSE Append(map, [index |-> tc.index, id |-> tc.id,
                                name |-> tc.name, arguments |-> <<>>])
    IN  [k \in 1..Len(m1) |->
            IF m1[k].index # tc.index THEN m1[k]
            ELSE [index |-> m1[k].index,
                  id |-> IF tc.id # "" THEN tc.id ELSE m1[k].id,
                  name |-> IF tc.name # "" THEN tc.name ELSE m1[k].name,
                  arguments |-> m1[k].arguments \o tc.arguments]]

RECURSIVE MergeToolCalls(_, _)
MergeToolCalls(map, ms) ==
    IF ms = <<>> THEN map
    ELSE MergeToolCalls(MergeToolCall(map, ToolCallOf(Head(ms))), Tail(ms))

ToolFrame(st, payload) ==
    LET json == JSONParse(payload) IN
    IF ~json.ok \/ ChoicesThrows(json) THEN Threw(st)
    ELSE Ran([st EXCEPT
                !.content = @ \o DeltaContent(json),
                !.toolCallsMap = MergeToolCalls(@, MembersIn(json, ToolCallMembers)),
                !.finishReason = IF Has(json, FinishMembers)
                                 THEN FinishOf(Member(json, FinishMembers)) ELSE @])

ToolLine(st, line) ==
    LET trimmed == Trim(line) IN
    IF trimmed = <<>> \/ trimmed = DoneLine THEN st
    ELSE IF StartsWith(trimmed, DataPrefix)
    THEN CatchFrame(st, ToolFrame(st, Slice(trimmed, DataPrefixLen)))
    ELSE st

\* ---- performOllamaStream (OllamaAdapter)

NdFrame(st, line) ==
    LET json == JSONParse(line) IN
    IF ~json.ok \/ json.null THEN Threw(st)
    ELSE LET text == ResponseText(json)
             s1 == IF text # <<>> THEN Deliver(OnToken(st), text) ELSE st
         IN  Ran(IF Has(json, DoneMembers) THEN [s1 EXCEPT !.done = TRUE] ELSE s1)

NdLine(st, line) ==
    IF Trim(line) = <<>> THEN st ELSE CatchFrame(st, NdFrame(st, line))

\* ---- the three loops

Framings == {"sse", "tool", "ndjson"}

Line(fr, st, line) ==
    CASE fr = "sse" -> SSELine(st, line)
      [] fr = "tool" -> ToolLine(st, line)
      [] fr = "ndjson" -> NdLine(st, line)

RECURSIVE Lines(_, _, _)
Lines(fr, st, lines) ==
    IF lines = <<>> THEN st ELSE Lines(fr, Line(fr, st, Head(lines)), Tail(lines))

\* buffer = done ? '' : lines.pop() || ''   (read() gives no value with done)
CarryNothing(lines) == <<>>
CarryOver(lines) == PopLast(lines).last

\* one turn of the loop with a value: reader.read() gave {value, done: false}
OnChunk(fr, st, value) ==
    IF fr = "ndjson"
    THEN \* const lines = chunk.split('\n'): each chunk is split on its own
         Lines(fr, st, SplitLines(value))
    ELSE \* buffer += value; lines = buffer.split('\n'); buffer = lines.pop()
         LET lines == SplitLines(st.buffer \o value) IN
         Lines(fr, [st EXCEPT !.buffer = CarryOver(lines)], PopLast(lines).rest)

\* reader.read() gave {done: true}: the loop ends; what follows it
OnEnd(fr, st) ==
    CASE fr = "sse" ->
            \* flush: the remaining buffer is decoded as one more line
            LET trimmed == Trim(st.buffer)
                s1 == IF /\ trimmed # <<>>
                         /\ StartsWith(trimmed, DataPrefix)
                         /\ trimmed # DoneLine
                      THEN CatchFrame(st, SSEFrame(st, Slice(trimmed, DataPrefixLen), FALSE))
                      ELSE st
            IN  Finish(s1)
      [] fr = "tool" -> st      \* the map is turned into the array, no flush
      [] fr = "ndjson" -> Finish(st)

\* while (!done): performOllamaStream leaves its loop once json.done was seen
LoopEnds(fr, st) == fr = "ndjson" /\ st.done

\* the whole decode of a sequence of chunks
RECURSIVE Decode(_, _, _)
Decode(fr, st, cs) ==
    IF cs = <<>> \/ LoopEnds(fr, st) THEN OnEnd(fr, st)
    ELSE Decode(fr, OnChunk(fr, st, Head(cs)), Tail(cs))

\* what the call returns: the text, and for tool calls the array and reason
Returned(fr, st) ==
    IF fr = "tool"
    THEN \* content: content || null
         [text |-> st.content, isNull |-> st.content = <<>>,
          toolCalls |-> st.toolCallsMap, finishReason |-> st.finishReason]
    ELSE [text |-> st.fullText, isNull |-> FALSE,
          toolCalls |-> <<>>, finishReason |-> "none"]

\* ---- BaseLLMAdapter.stream and cleanOutput

ThinkOpen == "<think>"
ThinkClose == "</think>"
Fence == "[fence]"

\* the first position at or after `from` that holds `x`, 0 if none
FirstAt(s, x, from) ==
    IF \E i \in from..Len(s) : s[i] = x
    THEN CHOOSE i \in from..Len(s) :
            s[i] = x /\ \A j \in from..(i - 1) : s[j] # x
    ELSE 0

\* clean.replace(/<(think|thought|reasoning)>[\s\S]*?<\/\1>/gi, ''): every
\* opening tag that has a closing tag after it goes, with all up to the
\* first such closing tag; the search goes on behind the match
RECURSIVE StripThinking(_)
StripThinking(s) ==
    LET open == FirstAt(s, ThinkOpen, 1)
        close == IF open = 0 THEN 0 ELSE FirstAt(s, ThinkClose, open + 1)
    IN  IF close = 0 THEN s
        ELSE SubSeq(s, 1, open - 1) \o StripThinking(SubSeq(s, close + 1, Len(s)))

\* clean.match(/[fence](?:json)?\s*([\s\S]*?)\s*[fence]/): the text between the
\* first two fences without the whitespace around it; else every fence goes
FenceLabel == "json"
\* (?:json)?\s*([\s\S]*?)\s*: what lies between two fences, without the
\* label and without the whitespace around it
FenceContent(inner) ==
    Trim(IF inner # <<>> /\ inner[1] = FenceLabel THEN Tail(inner) ELSE inner)
StripFences(s) ==
    LET first == FirstAt(s, Fence, 1)
        second == IF first = 0 THEN 0 ELSE FirstAt(s, Fence, first + 1)
    IN  IF second # 0 THEN FenceContent(SubSeq(s, first + 1, second - 1))
        ELSE SelectSeq(s, LAMBDA x : x # Fence)

\* cleanOutput(text)
CleanOutput(text) == Trim(StripFences(StripThinking(Trim(text))))

\* stream(): return this.cleanOutput(raw), raw being performStream's text
StreamReturnRaw(st) == st.fullText
StreamReturn(st) == CleanOutput(st.fullText)

\* ---- What a backend sends

\* the frames of each wire contract, and lines that are no frame
FrameKinds(fr) ==
    CASE fr = "sse" ->
            {"content_a", "content_bc", "content_empty", "thinking",
             "bad_json", "no_choices", "empty_choices", "done_mark", "blank",
             "content_sp_a", "content_thought", "content_fenced",
             "content_fence"}
      [] fr = "tool" ->
            {"content_a", "call0_head", "call0_args", "call0_again", "call1_head",
             "finish_length", "finish_eos", "bad_json", "no_choices", "done_mark",
             "blank"}
      [] fr = "ndjson" ->
            {"response_a", "response_bc", "final", "response_a_final",
             "bad_json", "null", "blank"}

Data(payload) == DataPrefix \o payload

\* the line of a frame, without its newline; content_bc ends with a carriage
\* return (a server that ends lines with CR LF)
Encode(kind) ==
    CASE kind = "content_a" -> Data(<<"{", "c:a", "}">>)
      [] kind = "content_bc" -> Data(<<"{", "c:bc", "}", "\r">>)
      [] kind = "content_empty" -> Data(<<"{", "c:", "}">>)
      [] kind = "content_sp_a" -> Data(<<"{", "c:_a", "}">>)
      [] kind = "content_thought" -> Data(<<"{", "c:thought", "}">>)
      [] kind = "content_fenced" -> Data(<<"{", "c:fenced", "}">>)
      [] kind = "content_fence" -> Data(<<"{", "c:fence", "}">>)
      [] kind = "thinking" -> Data(<<"{", "r", "}">>)
      [] kind = "call0_head" -> Data(<<"{", "t0:head", "}">>)
      [] kind = "call0_args" -> Data(<<"{", "t0:args", "}">>)
      [] kind = "call0_again" -> Data(<<"{", "t0:again", "}">>)
      [] kind = "call1_head" -> Data(<<"{", "t1:head", "}">>)
      [] kind = "finish_eos" -> Data(<<"{", "fr:eos", "}">>)
      [] kind = "finish_length" -> Data(<<"{", "fr:length", "}">>)
      [] kind = "no_choices" -> Data(<<"{", "}">>)
      [] kind = "empty_choices" -> Data(<<"{", "choices:[]", "}">>)
      [] kind = "done_mark" -> DoneLine
      [] kind = "response_a" -> <<"{", "resp:a", "}">>
      [] kind = "response_bc" -> <<"{", "resp:bc", "}", "\r">>
      [] kind = "final" -> <<"{", "done", "}">>
      [] kind = "response_a_final" -> <<"{", "resp:a", "done", "}">>
      [] kind = "null" -> <<"null">>
      [] kind = "blank" -> <<>>
      \* a payload cut short: JSON.parse throws
      [] kind = "bad_json" -> <<"{", "c:a">>

\* bad_json needs the prefix in the event-stream framings only
EncodeFor(fr, kind) ==
    IF kind = "bad_json" /\ fr # "ndjson" THEN Data(Encode(kind)) ELSE Encode(kind)

\* the lines joined by newlines; the last line ends with one iff terminated
RECURSIVE EncodeStream(_, _, _)
EncodeStream(fr, fs, terminated) ==
    IF fs = <<>> THEN <<>>
    ELSE IF Len(fs) = 1
    THEN EncodeFor(fr, fs[1]) \o (IF terminated THEN <<NL>> ELSE <<>>)
    ELSE EncodeFor(fr, fs[1]) \o <<NL>> \o EncodeStream(fr, Tail(fs), terminated)

FrameSeqs(fr) ==
    UNION {[1..n -> FrameKinds(fr)] : n \in 0..MaxFrames}

\* the body delivered whole (cut = 0) or as two chunks split after `cut` elements
SplitAt(w, cut) ==
    IF w = <<>> THEN <<>>
    ELSE IF cut = 0 THEN <<w>>
    ELSE <<SubSeq(w, 1, cut), SubSeq(w, cut + 1, Len(w))>>

DecodeInit ==
    /\ maxConcurrency = 1
    /\ active = 0
    /\ queue = <<>>
    /\ pc = [c \in Callers |-> "idle"]
    /\ fnOutcome = [c \in Callers |-> NoOutcome]
    /\ result = [c \in Callers |-> NoOutcome]
    /\ arrivals = <<>>
    /\ grants = <<>>
    /\ waited = {}
    /\ lateArrival = {}
    /\ acquired = 0
    /\ released = 0
    /\ adapter = "none"
    /\ maxRetries = 0
    /\ op = [c \in Callers |-> "none"]
    /\ attempt = [c \in Callers |-> 0]
    /\ timerArmed = [c \in Callers |-> FALSE]
    /\ NoRequests
    /\ framing \in Framings
    /\ frames \in FrameSeqs(framing)
    /\ \E terminated \in BOOLEAN : wire = EncodeStream(framing, frames, terminated)
    /\ \E cut \in 0..(IF wire = <<>> THEN 0 ELSE Len(wire) - 1) :
            chunks = SplitAt(wire, cut)
    /\ delivered = <<>>
    /\ dec = NewDecoder
    /\ dpc = "reading"
    /\ PureIdle

\* await reader.read() gave a value: one turn of the loop
ReadChunk ==
    /\ dpc = "reading"
    /\ chunks # <<>>
    /\ LET st == OnChunk(framing, dec, Head(chunks)) IN
        IF LoopEnds(framing, st)
        THEN dec' = OnEnd(framing, st) /\ dpc' = "done"
        ELSE dec' = st /\ dpc' = "reading"
    /\ chunks' = Tail(chunks)
    /\ delivered' = Append(delivered, Head(chunks))
    /\ UNCHANGED <<framing, frames, wire>>
    /\ UNCHANGED outsideDecoder

\* await reader.read() gave done: the loop ends, the rest of the method runs
ReadEnd ==
    /\ dpc = "reading"
    /\ chunks = <<>>
    /\ dec' = OnEnd(framing, dec)
    /\ dpc' = "done"
    /\ UNCHANGED <<framing, frames, wire, chunks, delivered>>
    /\ UNCHANGED outsideDecoder

DecodeNext == ReadChunk \/ ReadEnd

DecodeSpec == DecodeInit /\ [][DecodeNext]_vars

(***************************************************************************)
(* Claims about the decoders                                               *)
(***************************************************************************)
\* what the caller gets: the returned value and the onChunk calls
Output(fr, st) == [returned |-> Returned(fr, st), emitted |-> st.emitted]
\* the decode of a body delivered as one chunk
Whole(fr, w) == Decode(fr, NewDecoder, SplitAt(w, 0))
Unterminated(w) == w # <<>> /\ w[Len(w)] # NL
\* all chunks of the body, read or not
AllChunks == delivered \o chunks
\* the chunk boundary lies inside a line
CutInsideLine == Len(AllChunks) = 2 /\ Unterminated(AllChunks[1])

\* a line whose payload is not valid JSON or lacks choices / choices[0]
BadLine(fr, line) ==
    IF fr = "ndjson"
    THEN Trim(line) # <<>> /\ (~JSONParse(line).ok \/ JSONParse(line).null)
    ELSE LET t == Trim(line)
             json == JSONParse(Slice(t, DataPrefixLen))
         IN  /\ StartsWith(t, DataPrefix)
             /\ t # DoneLine
             /\ (~json.ok \/ ChoicesThrows(json) \/ Has(json, NoChoiceMembers))

\* the text without its bad lines (each goes with its newline)
RECURSIVE JoinKept(_, _)
JoinKept(fr, lines) ==
    IF Len(lines) = 1
    THEN (IF BadLine(fr, lines[1]) THEN <<>> ELSE lines[1])
    ELSE (IF BadLine(fr, lines[1]) THEN <<>> ELSE lines[1] \o <<NL>>)
         \o JoinKept(fr, Tail(lines))
WithoutBadLines(fr, w) == JoinKept(fr, SplitLines(w))

BadKinds == {"bad_json", "no_choices", "empty_choices", "null"}
EffectiveKinds ==
    {"content_a", "content_bc", "call0_head", "call0_args", "call0_again",
     "call1_head", "finish_length", "finish_eos", "response_a", "response_bc",
     "response_a_final"}

\* C7: readSSEResponse gives the same onChunk deltas and the same full text
\* when the body is split at any offset into two chunks as when it is
\* delivered as one chunk.
C7_SSESplitEquivalent ==
    (dpc = "done" /\ framing = "sse") =>
        /\ dec.emitted = Whole("sse", wire).emitted
        /\ dec.fullText = Whole("sse", wire).fullText
\* C7 witness: a body split inside a line, decoded to two deltas.
C7_Witness ==
    /\ dpc = "done" /\ framing = "sse"
    /\ CutInsideLine
    /\ Len(dec.emitted) = 2

\* C8 (as claimed): performOllamaStream gives the same deltas and full text
\* for a body of newline-terminated JSON lines (the line with done last, if
\* any) split at any offset as for the body delivered whole.
C8_NdjsonSplitEquivalent ==
    (/\ dpc = "done" /\ framing = "ndjson"
     /\ ~Unterminated(wire)
     /\ \A i \in 1..Len(frames) :
            /\ frames[i] \in {"response_a", "response_bc", "final", "response_a_final"}
            /\ frames[i] \in {"final", "response_a_final"} => i = Len(frames))
    =>  /\ dec.emitted = Whole("ndjson", wire).emitted
        /\ dec.fullText = Whole("ndjson", wire).fullText

\* C9 (as claimed): when the body ends with a non-empty line that has no
\* newline, every decoder decodes it as a final frame: the result is the one
\* of the same body with the newline added.  (For the line-delimited decoder
\* the body is taken as delivered whole.)
C9_UnterminatedLastLineDecoded ==
    (/\ dpc = "done"
     /\ Unterminated(wire)
     /\ framing = "ndjson" => Len(AllChunks) = 1)
    =>  Output(framing, dec) = Output(framing, Whole(framing, wire \o <<NL>>))

ToolKinds == {"call0_head", "call0_args", "call0_again", "call1_head"}
FinishKinds == {"finish_length", "finish_eos"}
\* the tool_calls entry and the finish_reason a frame of the body carries
FragmentOf(kind) ==
    ToolCallOf(CASE kind = "call0_head" -> "t0:head"
                 [] kind = "call0_args" -> "t0:args"
                 [] kind = "call0_again" -> "t0:again"
                 [] kind = "call1_head" -> "t1:head")
ReasonOf(kind) ==
    CASE kind = "finish_length" -> "length"
      [] kind = "finish_eos" -> "eos"
      [] OTHER -> "none"
\* the fragments the backend sent for index i, in the order it sent them
FragmentsFor(i) ==
    SelectSeq(frames, LAMBDA k : k \in ToolKinds /\ FragmentOf(k).index = i)
RECURSIVE JoinArgs(_)
JoinArgs(fs) ==
    IF fs = <<>> THEN <<>> ELSE FragmentOf(Head(fs)).arguments \o JoinArgs(Tail(fs))
RECURSIVE LastName(_)
LastName(fs) ==
    IF fs = <<>> THEN ""
    ELSE IF FragmentOf(fs[Len(fs)]).name # "" THEN FragmentOf(fs[Len(fs)]).name
    ELSE LastName(SubSeq(fs, 1, Len(fs) - 1))
\* the entries of the returned toolCalls array that stem from index i
EntriesFor(i) == SelectSeq(dec.toolCallsMap, LAMBDA e : e.index = i)
SentReasons == SelectSeq(frames, LAMBDA k : k \in FinishKinds)
ToolDone == dpc = "done" /\ framing = "tool"

\* C11 (as claimed): for every call index, the returned toolCalls hold no
\* entry when no fragment was sent for it, and otherwise exactly one entry
\* whose arguments are the argument pieces sent for that index, joined in
\* the order sent, and whose name is the name that was sent.
C11_FragmentsJoined ==
    ToolDone =>
        \A i \in {0, 1} :
            IF FragmentsFor(i) = <<>> THEN EntriesFor(i) = <<>>
            ELSE /\ Len(EntriesFor(i)) = 1
                 /\ EntriesFor(i)[1].arguments = JoinArgs(FragmentsFor(i))
                 /\ EntriesFor(i)[1].name = LastName(FragmentsFor(i))

\* C12 (as claimed): the returned toolCalls are in ascending order of call
\* index, one entry per index, whatever the order the fragments came in.
C12_ToolCallsAscending ==
    (ToolDone /\ ~Unterminated(wire)) =>
        \A k, l \in 1..Len(dec.toolCallsMap) :
            k < l => dec.toolCallsMap[k].index < dec.toolCallsMap[l].index

\* C13 (as claimed): the returned finishReason is the last finish_reason the
\* backend sent; when it sent none, it is tool_calls if a tool call was
\* accumulated and stop otherwise.
C13_FinishReasonDefault ==
    (ToolDone /\ ~Unterminated(wire)) =>
        dec.finishReason =
            IF SentReasons # <<>> THEN ReasonOf(SentReasons[Len(SentReasons)])
            ELSE IF dec.toolCallsMap # <<>> THEN "tool_calls"
            ELSE "stop"

(***************************************************************************)
(* Claims about the plain-completion accumulator                           *)
(***************************************************************************)
\* the content delta a frame of the body carries (<<>>: none, or empty)
DeltaOf(kind) ==
    CASE kind \in {"content_a", "response_a", "response_a_final"} -> <<"a">>
      [] kind \in {"content_bc", "response_bc"} -> <<"b", "c">>
      [] kind = "content_sp_a" -> <<" ", "a">>
      [] kind = "content_thought" -> <<"<think>", "b", "</think>">>
      [] kind = "content_fenced" -> <<"[fence]", "c", " ", "[fence]">>
      [] kind = "content_fence" -> <<"[fence]">>
      [] OTHER -> <<>>
\* the non-empty content deltas of the response, in frame order
RECURSIVE DeltasOf(_)
DeltasOf(fs) ==
    IF fs = <<>> THEN <<>>
    ELSE (IF DeltaOf(Head(fs)) # <<>> THEN <<DeltaOf(Head(fs))>> ELSE <<>>)
         \o DeltasOf(Tail(fs))
RECURSIVE Flatten(_)
Flatten(ss) == IF ss = <<>> THEN <<>> ELSE Head(ss) \o Flatten(Tail(ss))
\* a line-delimited body whose line with done is the last one, if any
FinalLast ==
    \A i \in 1..Len(frames) :
        frames[i] \in {"final", "response_a_final"} => i = Len(frames)
StreamDone == dpc = "done" /\ framing \in {"sse", "ndjson"}

\* C14 (as claimed): in a streamed completion the onChunk calls are, in
\* order, exactly the non-empty content deltas of the response: one call per
\* delta, none for an empty delta, a thinking delta, a dropped frame or the
\* terminal sentinel.
C14_OnChunkOncePerDelta ==
    (StreamDone /\ (framing = "ndjson" => FinalLast)) =>
        dec.emitted = DeltasOf(frames)

FirstTokenEvents(events) == SelectSeq(events, LAMBDA e : e \in {"ttft", "thinking"})
\* the frames that carry a non-empty content delta or a thinking delta
Signals == SelectSeq(frames, LAMBDA k : k = "thinking" \/ DeltaOf(k) # <<>>)
FormOf(kind) == IF kind = "thinking" THEN "thinking" ELSE "ttft"

\* C16 (as claimed): for an event-stream response, whatever the split into
\* chunks and whether or not the last line ends with a newline, exactly one
\* first-token notice is written when the response holds a non-empty content
\* delta or a thinking delta, in the form of the first such delta; none is
\* written when it holds no such delta.
C16_OneFirstTokenEvent ==
    (dpc = "done" /\ framing = "sse") =>
        FirstTokenEvents(dec.events) =
            IF Signals = <<>> THEN <<>> ELSE <<FormOf(Signals[1])>>

(***************************************************************************)
(* Claims about the retry loop                                             *)
(***************************************************************************)
\* the failure signals invalid or expired credentials
Credentials(e) == e \in {"http401", "http403_key"}
\* the call's fn has settled
Ended(c) == pc[c] \in {"settled", "done"}
\* the last attempt returned (complete() may still reject its text)
AttemptSucceeded(c) ==
    /\ Ended(c)
    /\ \/ fnOutcome[c].kind = "value"
       \/ fnOutcome[c].val \in {"empty", "nojson"}
\* the call ended with the error of an attempt that was no credentials failure
GaveUp(c) ==
    /\ Ended(c)
    /\ fnOutcome[c].kind = "error"
    /\ fnOutcome[c].val \in AttemptErrors
    /\ ~Credentials(fnOutcome[c].val)
RetriedCall(c) == Retried(adapter, op[c]) /\ maxRetries >= 1

\* C17 (as claimed): under the retry loop, attempts that fail with retryable
\* failures are followed by further attempts until one succeeds: a call
\* whose attempt succeeded after k failures made k + 1 invocations, k below
\* the budget, and no call ends with a retryable failure after fewer
\* failures than the budget.
C17_RetryUntilSuccess ==
    \A c \in RetryCallers : RetriedCall(c) =>
        /\ AttemptSucceeded(c) =>
                requests[c] = failed[c] + 1 /\ failed[c] < maxRetries
        /\ GaveUp(c) => failed[c] >= maxRetries

\* C18: under the retry loop, an attempt that fails with a credentials
\* failure ends the call then and there: the call has settled with that very
\* failure, no request was issued after it and no backoff wait began; when
\* it was the first attempt, exactly one invocation was made.
C18_FatalEndsAtOnce ==
    \A c \in RetryCallers :
        (RetriedCall(c) /\ Credentials(lastError[c])) =>
            /\ Ended(c)
            /\ fnOutcome[c] = [kind |-> "error", val |-> lastError[c]]
            /\ requests[c] = failed[c]
            /\ failed[c] = 1 => requests[c] = 1
\* C18 witness: with a budget of three a call ended on the credentials
\* failure of its first attempt, and handed it to its caller.
C18_Witness ==
    \E c \in RetryCallers :
        /\ Retried(adapter, op[c]) /\ maxRetries = DefaultMaxRetries
        /\ pc[c] = "done"
        /\ result[c] = [kind |-> "error", val |-> "http401"]
        /\ requests[c] = 1

\* C19 (as claimed): under the retry loop, when every attempt failed with a
\* retryable failure, the invocations number exactly the budget and the
\* failure handed on is the one of the last attempt.
C19_ExhaustedPropagatesLast ==
    \A c \in RetryCallers :
        (/\ RetriedCall(c)
         /\ Ended(c)
         /\ ~AttemptSucceeded(c)
         /\ ~Credentials(lastError[c]))
        =>  /\ requests[c] = maxRetries
            /\ failed[c] = maxRetries
            /\ fnOutcome[c] = [kind |-> "error", val |-> lastError[c]]

\* C20: a stream() call issues at most one transport request; once an
\* attempt of it failed, also after a delta was delivered, the call has
\* ended with that failure; the first delta of the response reaches onChunk
\* at most once.
C20_StreamNotRetried ==
    \A c \in RetryCallers :
        op[c] = "stream" =>
            /\ requests[c] <= 1
            /\ chunkCalls[c] <= 1
            /\ failed[c] >= 1 =>
                    /\ Ended(c)
                    /\ fnOutcome[c] = [kind |-> "error", val |-> lastError[c]]
\* C20 witness: an OpenAI stream() with a retry budget above one failed with
\* a retryable failure after a delta had been delivered, and ended.
C20_Witness ==
    \E c \in RetryCallers :
        /\ op[c] = "stream" /\ adapter = "openai" /\ maxRetries > 1
        /\ pc[c] = "done"
        /\ chunkCalls[c] = 1
        /\ result[c].kind = "error" /\ ~IsFatal(result[c].val)

(***************************************************************************)
(* Claims about the deadline of an exchange                                *)
(***************************************************************************)
\* C21 (as claimed): in the OpenAI and MLX adapters the deadline timer of an
\* exchange is pending as long as the exchange awaits the backend: the
\* headers, the body of an error response, or the streamed body.
C21_DeadlineCoversExchange ==
    \A c \in RetryCallers :
        (adapter \in {"openai", "mlx"} /\ pc[c] \in Awaiting) => timerArmed[c]

(***************************************************************************)
(* Helper functions on text: BaseTask.extractJSON / sanitizeJSON and       *)
(* BaseLLMAdapter.extractJSON.  A text is a sequence of characters; a word *)
(* character, the fence and the label json each count as one.              *)
(***************************************************************************)
MaxTextLen == 3

DQ == "\""
WordChars == {"x", "1", FenceLabel}

\* what a helper function returned or threw
Val(v) == [kind |-> "value", val |-> v, err |-> "none"]
Err(e) == [kind |-> "error", val |-> <<>>, err |-> e]

\* indexOf / lastIndexOf, counted from 1; 0 stands for -1
IndexOf(s, x) == FirstAt(s, x, 1)
LastIndexOf(s, x) ==
    IF \E i \in 1..Len(s) : s[i] = x
    THEN CHOOSE i \in 1..Len(s) : s[i] = x /\ \A j \in (i + 1)..Len(s) : s[j] # x
    ELSE 0
\* clean.slice(start, end + 1): empty when end lies before start
SliceTo(s, start, end) == IF end < start THEN <<>> ELSE SubSeq(s, start, end)

\* the first position at or after i that holds no whitespace / no word character
RECURSIVE SkipWs(_, _)
SkipWs(s, i) == IF i <= Len(s) /\ s[i] \in Whitespace THEN SkipWs(s, i + 1) ELSE i
RECURSIVE WordEnd(_, _)
WordEnd(s, i) == IF i <= Len(s) /\ s[i] \in WordChars THEN WordEnd(s, i + 1) ELSE i

\* clean.replace(/[fence](?:json)?\s*([\s\S]*?)\s*[fence]/g, '$1'): every
\* pair of fences goes, what lies between them stays
RECURSIVE UnwrapFences(_)
UnwrapFences(s) ==
    LET first == FirstAt(s, Fence, 1)
        second == IF first = 0 THEN 0 ELSE FirstAt(s, Fence, first + 1)
    IN  IF second = 0 THEN s
        ELSE SubSeq(s, 1, first - 1)
             \o FenceContent(SubSeq(s, first + 1, second - 1))
             \o UnwrapFences(SubSeq(s, second + 1, Len(s)))

\* jsonStr.replace(/"\s+"(\w+)"/g, '"$1"')
RECURSIVE FixDoubledQuotes(_, _)
FixDoubledQuotes(s, i) ==
    IF i > Len(s) THEN <<>>
    ELSE LET w == SkipWs(s, i + 1)
             e == WordEnd(s, w + 1)
         IN  IF /\ s[i] = DQ
                /\ w > i + 1 /\ w <= Len(s) /\ s[w] = DQ
                /\ e > w + 1 /\ e <= Len(s) /\ s[e] = DQ
             THEN <<DQ>> \o SubSeq(s, w + 1, e - 1) \o <<DQ>>
                  \o FixDoubledQuotes(s, e + 1)
             ELSE <<s[i]>> \o FixDoubledQuotes(s, i + 1)

\* jsonStr.replace(/,(\s*[}\]])/g, '$1')
RECURSIVE DropTrailingCommas(_, _)
DropTrailingCommas(s, i) ==
    IF i > Len(s) THEN <<>>
    ELSE LET j == SkipWs(s, i + 1) IN
         IF s[i] = "," /\ j <= Len(s) /\ s[j] \in {"}", "]"}
         THEN SubSeq(s, i + 1, j) \o DropTrailingCommas(s, j + 1)
         ELSE <<s[i]>> \o DropTrailingCommas(s, i + 1)

\* sanitizeJSON(jsonStr)
SanitizeJSON(s) == DropTrailingCommas(FixDoubledQuotes(s, 1), 1)

\* ---- JSON.parse of a text: strings without escapes, numbers of digits 1,
\* objects and arrays.  The value is written as the text without whitespace.
ParseFail == [ok |-> FALSE, pos |-> 0, val |-> <<>>]
ParseOk(pos, val) == [ok |-> TRUE, pos |-> pos, val |-> val]
RECURSIVE NumberEnd(_, _)
NumberEnd(s, i) == IF i <= Len(s) /\ s[i] = "1" THEN NumberEnd(s, i + 1) ELSE i
ParseString(s, i) ==
    LET j == FirstAt(s, DQ, i + 1) IN
    IF j = 0 THEN ParseFail ELSE ParseOk(j + 1, SubSeq(s, i, j))

RECURSIVE ParseValue(_, _)
RECURSIVE ParseMembers(_, _, _)
RECURSIVE ParseElements(_, _, _)
ParseValue(s, i) ==
    LET j == SkipWs(s, i)
        k == SkipWs(s, j + 1)
    IN  IF j > Len(s) THEN ParseFail
        ELSE IF s[j] = DQ THEN ParseString(s, j)
        ELSE IF s[j] = "1" THEN ParseOk(NumberEnd(s, j), SubSeq(s, j, NumberEnd(s, j) - 1))
        ELSE IF s[j] = "{"
        THEN (IF k <= Len(s) /\ s[k] = "}" THEN ParseOk(k + 1, <<"{", "}">>)
              ELSE ParseMembers(s, j + 1, <<"{">>))
        ELSE IF s[j] = "["
        THEN (IF k <= Len(s) /\ s[k] = "]" THEN ParseOk(k + 1, <<"[", "]">>)
              ELSE ParseElements(s, j + 1, <<"[">>))
        ELSE ParseFail
\* a member is due at i: "key" : value, then a comma or the closing brace
ParseMembers(s, i, acc) ==
    LET k == SkipWs(s, i)
        key == IF k <= Len(s) /\ s[k] = DQ THEN ParseString(s, k) ELSE ParseFail
        c == IF key.ok THEN SkipWs(s, key.pos) ELSE 0
        v == IF key.ok /\ c <= Len(s) /\ s[c] = ":" THEN ParseValue(s, c + 1)
             ELSE ParseFail
        n == IF v.ok THEN SkipWs(s, v.pos) ELSE 0
        acc2 == acc \o key.val \o <<":">> \o v.val
    IN  IF ~v.ok \/ n > Len(s) THEN ParseFail
        ELSE IF s[n] = "}" THEN ParseOk(n + 1, Append(acc2, "}"))
        ELSE IF s[n] = "," THEN ParseMembers(s, n + 1, Append(acc2, ","))
        ELSE ParseFail
\* an element is due at i: value, then a comma or the closing bracket
ParseElements(s, i, acc) ==
    LET v == ParseValue(s, i)
        n == IF v.ok THEN SkipWs(s, v.pos) ELSE 0
        acc2 == acc \o v.val
    IN  IF ~v.ok \/ n > Len(s) THEN ParseFail
        ELSE IF s[n] = "]" THEN ParseOk(n + 1, Append(acc2, "]"))
        ELSE IF s[n] = "," THEN ParseElements(s, n + 1, Append(acc2, ","))
        ELSE ParseFail
\* JSON.parse(text): one value, whitespace around it, nothing else
JSONParseText(s) ==
    LET v == ParseValue(s, 1) IN
    IF v.ok /\ SkipWs(s, v.pos) > Len(s) THEN [ok |-> TRUE, val |-> v.val]
    ELSE [ok |-> FALSE, val |-> <<>>]

\* BaseTask.extractJSON(text): what clean holds before the braces are
\* looked for, and the whole function
TaskClean(text) == UnwrapFences(Trim(text))
TaskExtractJSON(text) ==
    LET clean == TaskClean(text)
        start == IndexOf(clean, "{")
        end == LastIndexOf(clean, "}")
        parsed == JSONParseText(SanitizeJSON(SliceTo(clean, start, end)))
    IN  IF start = 0 \/ end = 0 THEN Err("NoJSONFound")
        ELSE IF parsed.ok THEN Val(parsed.val)
        ELSE Err("InvalidJSON")

\* BaseLLMAdapter.extractJSON(text): returns the slice, does not parse it
AdapterExtractJSON(text) ==
    LET cleaned == CleanOutput(text)
        start == IndexOf(cleaned, "{")
        end == LastIndexOf(cleaned, "}")
    IN  IF start # 0 /\ end # 0 /\ end >= start
        THEN Val(SubSeq(cleaned, start, end))
        ELSE Err("NoJSONFound")

(***************************************************************************)
(* The end of an exchange: what complete(), stream() and completeWithTools *)
(* make of the text the decode loop returned, and the specifications of    *)
(* the adapter calls.                                                      *)
(***************************************************************************)
\* raw texts a backend's response decodes to: nothing, whitespace only,
\* prose, an object
RawTexts == { <<>>, <<" ", NL>>, <<"x">>, <<"{", "}">> }

\* !raw || raw.trim().length === 0
EmptyRawNever(text) == FALSE
EmptyRaw(text) == Trim(text) = <<>>

\* complete() after performComplete returned raw: throws on an empty text,
\* else extractJSON(raw) or cleanOutput(raw)
CompleteOutcome(text, json) ==
    IF EmptyRaw(text) THEN [kind |-> "error", val |-> "empty"]
    ELSE IF json /\ AdapterExtractJSON(text).kind = "error"
    THEN [kind |-> "error", val |-> "nojson"]
    ELSE [kind |-> "value", val |-> "v1"]

\* The body was read to its end and decoded to the text `text`; `json` is
\* expectsJSON, which only complete() computes and only here reads.
\* stream() returns cleanOutput(raw) and completeWithTools the response,
\* whatever the text.
BodyEnds(c, text, json) ==
    /\ pc[c] = "reading"
    \* only complete() looks at the text: elsewhere one text stands for all
    /\ op[c] # "complete" => (text = <<"x">> /\ ~json)
    /\ raw' = IF op[c] = "complete"
              THEN [raw EXCEPT ![c] = [read |-> TRUE, text |-> text]]
              ELSE raw
    /\ LET out == IF op[c] = "complete" THEN CompleteOutcome(text, json)
                  ELSE [kind |-> "value", val |-> "v1"]
       IN  Settle(c, out.kind, out.val)
    /\ UNCHANGED <<gateVars, result, histVars, adapter, maxRetries, op, attempt>>
    /\ UNCHANGED <<requests, failed, lastError, partial, chunkCalls, waits>>
    /\ UNCHANGED outsideCall

\* stream(): the decode loop read the first content delta of the response
\* and gave it to onChunk (complete and completeWithTools pass no onChunk)
DeltaArrives(c) ==
    /\ pc[c] = "reading"
    /\ op[c] = "stream"
    /\ ~partial[c]
    /\ partial' = [partial EXCEPT ![c] = TRUE]
    /\ chunkCalls' = [chunkCalls EXCEPT ![c] = @ + 1]
    /\ UNCHANGED <<requests, failed, lastError, raw, waits>>
    /\ UNCHANGED <<gateVars, callVars, histVars, xchgVars>>
    /\ UNCHANGED outsideCall

CallInit ==
    /\ maxConcurrency \in {n \in 1..MaxLimit : ValidLimit(n)}
    /\ active = 0
    /\ queue = <<>>
    /\ pc = [c \in Callers |-> "idle"]
    /\ fnOutcome = [c \in Callers |-> NoOutcome]
    /\ result = [c \in Callers |-> NoOutcome]
    /\ arrivals = <<>>
    /\ grants = <<>>
    /\ waited = {}
    /\ lateArrival = {}
    /\ acquired = 0
    /\ released = 0
    /\ adapter \in Adapters
    /\ maxRetries \in (IF adapter = "openai" THEN 0..DefaultMaxRetries ELSE {0})
    /\ op = [c \in Callers |-> "none"]
    /\ attempt = [c \in Callers |-> 0]
    /\ timerArmed = [c \in Callers |-> FALSE]
    /\ NoRequests
    /\ DecoderIdle
    /\ PureIdle

CallNext ==
    \/ \E c \in AdapterCallers, o \in Ops : AdapterCall(c, o)
    \/ \E c \in AdapterCallers : StartFn(c)
    \/ \E c \in AdapterCallers : FetchOk(c)
    \/ \E c \in AdapterCallers, e \in HttpErrors : FetchNotOk(c, e)
    \/ \E c \in AdapterCallers : ErrBodyRead(c)
    \/ \E c \in AdapterCallers : TransportFails(c)
    \/ \E c \in AdapterCallers : TimerFires(c)
    \/ \E c \in AdapterCallers : DeltaArrives(c)
    \/ \E c \in AdapterCallers, text \in RawTexts, json \in BOOLEAN : BodyEnds(c, text, json)
    \/ \E c \in AdapterCallers : BackoffDone(c)
    \/ \E c \in AdapterCallers : Exit(c)

CallSpec == CallInit /\ [][CallNext]_vars

\* What the runtime guarantees: ready continuations run (StartFn, Exit) and
\* pending timers fire (TimerFires, BackoffDone).  Nothing obliges the
\* backend to answer: FetchOk, FetchNotOk, ErrBodyRead, TransportFails and
\* BodyEnds carry no fairness.
FairCallSpec ==
    /\ CallSpec
    /\ \A c \in AdapterCallers : WF_vars(StartFn(c))
    /\ \A c \in AdapterCallers : WF_vars(Exit(c))
    /\ \A c \in AdapterCallers : WF_vars(TimerFires(c))
    /\ \A c \in AdapterCallers : WF_vars(BackoffDone(c))

\* The calls taken one at a time, for what a single call does across its
\* attempts: the same actions, for NumRetryCalls callers.

RetryNext ==
    \/ \E c \in RetryCallers, o \in Ops : AdapterCall(c, o)
    \/ \E c \in RetryCallers : StartFn(c)
    \/ \E c \in RetryCallers : FetchOk(c)
    \/ \E c \in RetryCallers, e \in HttpErrors : FetchNotOk(c, e)
    \/ \E c \in RetryCallers : ErrBodyRead(c)
    \/ \E c \in RetryCallers : TransportFails(c)
    \/ \E c \in RetryCallers : TimerFires(c)
    \/ \E c \in RetryCallers : DeltaArrives(c)
    \/ \E c \in RetryCallers, text \in RawTexts, json \in BOOLEAN : BodyEnds(c, text, json)
    \/ \E c \in RetryCallers : BackoffDone(c)
    \/ \E c \in RetryCallers : Exit(c)

RetrySpec == CallInit /\ [][RetryNext]_vars

(***************************************************************************)
(* Claim about the empty response                                          *)
(***************************************************************************)
\* the text is empty or holds whitespace only
Blank(text) == \A i \in 1..Len(text) : text[i] \in Whitespace
EmptyResponse == [kind |-> "error", val |-> "empty"]

\* C25: when the raw text that reached complete() is empty or whitespace
\* only, the call's fn throws the empty-response error, never a value or
\* another error; run() hands that error to the caller, and by then the
\* call's slot is released: the running count is the number of calls that
\* still hold a slot.
C25_EmptyResponseFails ==
    \A c \in RetryCallers :
        (op[c] = "complete" /\ raw[c].read /\ Blank(raw[c].text)) =>
            /\ pc[c] \in {"settled", "done"}
            /\ fnOutcome[c] = EmptyResponse
            /\ pc[c] = "done" =>
                    /\ result[c] = EmptyResponse
                    /\ active = Cardinality({d \in RetryCallers : HoldsSlot(d)})
C25_Witness ==
    \E c \in RetryCallers :
        /\ op[c] = "complete"
        /\ raw[c].read /\ raw[c].text = <<" ", NL>>
        /\ pc[c] = "done"
        /\ result[c] = EmptyResponse
        /\ active = 0

\* ---- the texts the functions are applied to

\* free texts of braces, word characters and fences
FreeChars == {"{", "}", "x", Fence}
FreeTexts == UNION {[1..n -> FreeChars] : n \in 0..MaxTextLen}

\* a JSON object as a model writes it; `comma` is <<",">> for a trailing
\* comma before the closing brace or bracket and <<>> for none
ObjectShapes == {"flat", "spaced", "array", "nested", "comma_in_string", "doubled_quote"}
ObjectText(shape, comma) ==
    CASE shape = "flat" ->
            <<"{", DQ, "x", DQ, ":", " ", "1">> \o comma \o <<"}">>
      [] shape = "spaced" ->
            <<"{", NL, " ", DQ, "x", DQ, ":", "1">> \o comma \o <<NL, "}">>
      [] shape = "array" ->
            <<"{", DQ, "x", DQ, ":", "[", "1", ",", "1">> \o comma \o <<"]", "}">>
      [] shape = "nested" ->
            <<"{", DQ, "x", DQ, ":", "{", DQ, "x", DQ, ":", "1">> \o comma
            \o <<"}">> \o comma \o <<"}">>
      [] shape = "comma_in_string" ->
            <<"{", DQ, "x", DQ, ":", DQ, "x", ",", "]", DQ>> \o comma \o <<"}">>
      [] shape = "doubled_quote" ->
            <<"{", DQ, " ", DQ, "x", DQ, ":", "1">> \o comma \o <<"}">>
\* prose ahead of the fenced block: none, plain, or with braces in it
Proses == {<<>>, <<"x", " ", "x", ":", NL>>, <<"x", " ", "{", "x", "}", ":", NL>>}
FenceLabels == {<<>>, <<FenceLabel>>}
Fenced(prose, label, object) ==
    prose \o <<Fence>> \o label \o <<NL>> \o object \o <<NL, Fence>>
FencedArgs ==
    {[text |-> Fenced(p, l, ObjectText(sh, c)), shape |-> sh, comma |-> c # <<>>,
      prose |-> p] :
        p \in Proses, l \in FenceLabels, sh \in ObjectShapes, c \in {<<>>, <<",">>}}
FreeArgs ==
    {[text |-> t, shape |-> "free", comma |-> FALSE, prose |-> <<>>] : t \in FreeTexts}
\* a thinking block that holds braces, then the object, no fence
ThoughtBlock == <<ThinkOpen, "{", "x", "}", ThinkClose, NL>>
ThoughtArgs ==
    {[text |-> ThoughtBlock \o ObjectText(sh, <<>>), shape |-> sh, comma |-> FALSE,
      prose |-> ThoughtBlock] : sh \in {"flat", "spaced", "array", "nested"}}

CallsIdle ==
    /\ maxConcurrency = 1
    /\ active = 0
    /\ queue = <<>>
    /\ pc = [c \in Callers |-> "idle"]
    /\ fnOutcome = [c \in Callers |-> NoOutcome]
    /\ result = [c \in Callers |-> NoOutcome]
    /\ arrivals = <<>>
    /\ grants = <<>>
    /\ waited = {}
    /\ lateArrival = {}
    /\ acquired = 0
    /\ released = 0
    /\ adapter = "none"
    /\ maxRetries = 0
    /\ op = [c \in Callers |-> "none"]
    /\ attempt = [c \in Callers |-> 0]
    /\ timerArmed = [c \in Callers |-> FALSE]
    /\ NoRequests

ExtractInit ==
    /\ CallsIdle
    /\ DecoderIdle
    /\ arg \in FreeArgs \cup FencedArgs \cup ThoughtArgs
    /\ ret = NoRet
    /\ ppc = "ready"
    /\ NoProxyCall

\* a task's parseOutput calls this.extractJSON(raw)
TaskExtract ==
    /\ ppc = "ready"
    /\ ret' = TaskExtractJSON(arg.text)
    /\ ppc' = "BaseTask.extractJSON"
    /\ UNCHANGED <<arg, proxy, run>>
    /\ UNCHANGED outsidePure

\* complete() with expectsJSON calls this.extractJSON(raw)
AdapterExtract ==
    /\ ppc = "ready"
    /\ ret' = AdapterExtractJSON(arg.text)
    /\ ppc' = "BaseLLMAdapter.extractJSON"
    /\ UNCHANGED <<arg, proxy, run>>
    /\ UNCHANGED outsidePure

ExtractNext == TaskExtract \/ AdapterExtract

ExtractSpec == ExtractInit /\ [][ExtractNext]_vars

(***************************************************************************)
(* Claims about extractJSON                                                *)
(***************************************************************************)
\* the text in which the function looks for the braces
CleanedFor(fn, text) ==
    IF fn = "BaseTask.extractJSON" THEN TaskClean(text) ELSE CleanOutput(text)
\* no opening brace, no closing brace, or the last closing before the first opening
NoObjectIn(s) ==
    \/ IndexOf(s, "{") = 0
    \/ LastIndexOf(s, "}") = 0
    \/ LastIndexOf(s, "}") < IndexOf(s, "{")

\* C22 (as claimed): when the cleaned text holds no opening brace, no
\* closing brace, or its last closing brace before its first opening brace,
\* extractJSON (of BaseTask and of BaseLLMAdapter) throws NoJSONFound; it
\* neither returns a value nor throws InvalidJSON.
C22_NoObjectIsNoJSONFound ==
    (ppc \in {"BaseTask.extractJSON", "BaseLLMAdapter.extractJSON"}
     /\ NoObjectIn(CleanedFor(ppc, arg.text)))
    => ret = Err("NoJSONFound")

\* C23 (as claimed): for an object in a fenced block, with or without the
\* label json and prose ahead of it, that carries a trailing comma before a
\* closing brace or bracket, BaseTask.extractJSON returns the value the
\* object without the fence and without the trailing comma denotes.
C23_FencedTrailingComma ==
    (/\ ppc = "BaseTask.extractJSON"
     /\ arg.shape \in ObjectShapes \ {"doubled_quote"}
     /\ arg.comma)
    => ret = Val(JSONParseText(ObjectText(arg.shape, <<>>)).val)

(***************************************************************************)
(* Template substitution: substituteTemplate and                           *)
(* BaseLLMAdapter.preparePrompt.  A variable's value is a string, a number *)
(* or an array of strings; `variables` keeps the order of Object.entries.  *)
(***************************************************************************)
MaxParts == 2

StrV(s) == [type |-> "string", str |-> s, num |-> 0, items |-> <<>>]
NumV(n) == [type |-> "number", str |-> <<>>, num |-> n, items |-> <<>>]
ArrV(a) == [type |-> "array", str |-> <<>>, num |-> 0, items |-> a]

\* `{{${key}}}`
Placeholder(key) == <<"{", "{", key, "}", "}">>

\* String(value) of a number: its decimal digits
DigitChars == <<"0", "1", "2", "3", "4", "5", "6", "7", "8", "9">>
RECURSIVE Digits(_)
Digits(n) == IF n < 10 THEN <<DigitChars[n + 1]>>
             ELSE Append(Digits(n \div 10), DigitChars[(n % 10) + 1])
\* value.join('\n')
RECURSIVE Join(_)
Join(items) ==
    IF items = <<>> THEN <<>>
    ELSE IF Len(items) = 1 THEN items[1]
    ELSE items[1] \o <<NL>> \o Join(Tail(items))
\* String(value) of an array: Array.prototype.toString joins with a comma
RECURSIVE JoinComma(_)
JoinComma(items) ==
    IF items = <<>> THEN <<>>
    ELSE IF Len(items) = 1 THEN items[1]
    ELSE items[1] \o <<",">> \o JoinComma(Tail(items))
\* String(value) of what substituteTemplate is handed
StringOf(v) ==
    IF v.type = "number" THEN Digits(v.num)
    ELSE IF v.type = "array" THEN JoinComma(v.items)
    ELSE v.str

\* does pat occur in s at position i
MatchesAt(s, pat, i) ==
    i + Len(pat) - 1 <= Len(s) /\ SubSeq(s, i, i + Len(pat) - 1) = pat

\* what a string replacement stands for at the match s[i .. i+n-1]:
\* $$ is one dollar, $& the match, $' the text after the match
RECURSIVE ExpandReplacement(_, _, _, _, _)
ExpandReplacement(rep, j, s, i, n) ==
    IF j > Len(rep) THEN <<>>
    ELSE IF rep[j] = "$" /\ j < Len(rep) /\ rep[j + 1] = "$"
    THEN <<"$">> \o ExpandReplacement(rep, j + 2, s, i, n)
    ELSE IF rep[j] = "$" /\ j < Len(rep) /\ rep[j + 1] = "&"
    THEN SubSeq(s, i, i + n - 1) \o ExpandReplacement(rep, j + 2, s, i, n)
    ELSE IF rep[j] = "$" /\ j < Len(rep) /\ rep[j + 1] = "'"
    THEN SubSeq(s, i + n, Len(s)) \o ExpandReplacement(rep, j + 2, s, i, n)
    ELSE <<rep[j]>> \o ExpandReplacement(rep, j + 1, s, i, n)

\* result.replaceAll(placeholder, String(value)), from position i on
RECURSIVE ReplaceAll(_, _, _, _)
ReplaceAll(s, pat, rep, i) ==
    IF i > Len(s) THEN <<>>
    ELSE IF MatchesAt(s, pat, i)
    THEN ExpandReplacement(rep, 1, s, i, Len(pat)) \o ReplaceAll(s, pat, rep, i + Len(pat))
    ELSE <<s[i]>> \o ReplaceAll(s, pat, rep, i + 1)

\* substituteTemplate(template, vars): one replaceAll per entry, in order
RECURSIVE SubstituteTemplate(_, _)
SubstituteTemplate(template, entries) ==
    IF entries = <<>> THEN template
    ELSE SubstituteTemplate(
             ReplaceAll(template, Placeholder(entries[1].key), StringOf(entries[1].value), 1),
             Tail(entries))

\* processedVars: arrays joined with newline, the rest as it is
ProcessedVars(variables) ==
    [k \in 1..Len(variables) |->
        [key |-> variables[k].key,
         value |-> IF variables[k].value.type = "array"
                   THEN StrV(Join(variables[k].value.items))
                   ELSE variables[k].value]]

\* preparePrompt(prompt, variables)
PreparePrompt(prompt, variables) == SubstituteTemplate(prompt, ProcessedVars(variables))

\* ---- the templates and variables the functions are applied to
Keys == {"a", "b"}
Parts == {<<"x">>, <<"{">>, Placeholder("a"), Placeholder("b"), Placeholder("c")}
PartSeqs == UNION {[1..n -> Parts] : n \in 0..MaxParts}
Templates == {Flatten(ps) : ps \in PartSeqs}
PlainValues == {StrV(<<"A", "d", "a">>), NumV(30), ArrV(<<<<"l", "1">>, <<"l", "2">>>>)}
PatternValues == {StrV(<<"$", "$", "5">>), StrV(<<"$", "&">>)}
NestedValues == {StrV(Placeholder("a")), StrV(Placeholder("b"))}
VarValues == PlainValues \cup PatternValues \cup NestedValues
Variables ==
    {<<>>}
    \cup {<<[key |-> k, value |-> v]>> : k \in Keys, v \in VarValues}
    \cup {<<e, f>> : <<e, f>> \in
            {p \in [key : Keys, value : VarValues] \X [key : Keys, value : PlainValues] :
                p[1].key # p[2].key}}
TemplateArgs == {[template |-> t, vars |-> vs] : t \in Templates, vs \in Variables}

TemplateInit ==
    /\ CallsIdle
    /\ DecoderIdle
    /\ arg \in TemplateArgs
    /\ ret = NoRet
    /\ ppc = "ready"
    /\ NoProxyCall

\* complete(): const finalPrompt = this.preparePrompt(prompt, variables)
RenderPrompt ==
    /\ ppc = "ready"
    /\ ret' = Val(PreparePrompt(arg.template, arg.vars))
    /\ ppc' = "preparePrompt"
    /\ UNCHANGED <<arg, proxy, run>>
    /\ UNCHANGED outsidePure

\* complete(): await this.performComplete(finalPrompt, ...), the network call
SendPrompt ==
    /\ ppc = "preparePrompt"
    /\ ppc' = "performComplete"
    /\ UNCHANGED <<arg, ret, proxy, run>>
    /\ UNCHANGED outsidePure

\* BaseTask.renderPrompt(input): substituteTemplate on the variables as
\* prepareVariables returned them, arrays included
TaskRenderPrompt ==
    /\ ppc = "ready"
    /\ ret' = Val(SubstituteTemplate(arg.template, arg.vars))
    /\ ppc' = "renderPrompt"
    /\ UNCHANGED <<arg, proxy, run>>
    /\ UNCHANGED outsidePure

TemplateNext == RenderPrompt \/ SendPrompt \/ TaskRenderPrompt

TemplateSpec == TemplateInit /\ [][TemplateNext]_vars

(***************************************************************************)
(* Claims about template substitution                                      *)
(***************************************************************************)
\* the string form of a variable's value, arrays joined with newline
StringForm(v) ==
    IF v.type = "number" THEN Digits(v.num)
    ELSE IF v.type = "array" THEN Join(v.items)
    ELSE v.str
HasVar(vs, k) == \E n \in 1..Len(vs) : vs[n].key = k
VarOf(vs, k) == vs[CHOOSE n \in 1..Len(vs) : vs[n].key = k].value
\* the template with each {{name}} of a supplied variable replaced by the
\* string form of its value and everything else left as it is
RECURSIVE Rendering(_, _, _)
Rendering(t, vs, i) ==
    IF i > Len(t) THEN <<>>
    ELSE IF /\ i + 4 <= Len(t)
            /\ SubSeq(t, i, i + 4) = Placeholder(t[i + 2])
            /\ HasVar(vs, t[i + 2])
    THEN StringForm(VarOf(vs, t[i + 2])) \o Rendering(t, vs, i + 5)
    ELSE <<t[i]>> \o Rendering(t, vs, i + 1)

\* C24 (as claimed): the prompt that preparePrompt renders, and that is then
\* sent, is the template with every {{name}} of a supplied variable replaced
\* by the string form of its value (arrays joined with newline) and
\* placeholders without a variable left untouched.
C24_TemplateRendered ==
    ppc \in {"preparePrompt", "performComplete"}
    => ret = Val(Rendering(arg.template, arg.vars, 1))

(***************************************************************************)
(* The task runner: DiagnosticLLMProxy.complete, BaseTask.run and runTask. *)
(* One call, entered either at proxy.complete(prompt, variables, options)  *)
(* or at runTask(llm, task, testCase).                                     *)
(***************************************************************************)
\* an options object as the set of its members; `given` is false for undefined
NoOptions == [given |-> FALSE, members |-> {}]
Options(ms) == [given |-> TRUE, members |-> ms]
\* BaseTask.run: { maxTokens: options?.maxTokens, expectsJSON: this.expectsJSON }
TaskOptions(expectsJSON) ==
    Options({<<"maxTokens", "undefined">>,
             <<"expectsJSON", IF expectsJSON THEN "true" ELSE "false">>})
\* options || {}
OrEmpty(o) == IF o.given THEN o.members ELSE {}

\* what a step may throw: an Error with a message, or a bare string
Thrown == {[isError |-> TRUE, text |-> "API error"], [isError |-> FALSE, text |-> "boom"]}
\* e instanceof Error ? e.message : String(e)
ErrorText(e) == e.text
\* the message of the Error extractJSON throws
ExtractMessage(err) ==
    IF err = "NoJSONFound" THEN "No JSON object found" ELSE "Invalid JSON syntax"

\* the statements of runTask that lie inside its try block
GuardedRunOnly == {"inner.complete", "parseOutput"}
Guarded == {"inner.complete", "parseOutput", "validate"}

\* the TaskRunResult of the try block and of the catch block
Passed(verdict, output, call) ==
    [kind |-> "result", pass |-> verdict.pass, validationMessage |-> verdict.message,
     error |-> "none", parsedOutput |-> output,
     renderedPrompt |-> call.renderedPrompt, rawOutput |-> call.rawOutput]
Failed(message, call) ==
    [kind |-> "result", pass |-> FALSE, validationMessage |-> "",
     error |-> message, parsedOutput |-> NoRet,
     renderedPrompt |-> call.renderedPrompt, rawOutput |-> call.rawOutput]
\* runTask rejects: the error left the function
Rejected(message) ==
    [kind |-> "rejected", pass |-> FALSE, validationMessage |-> "",
     error |-> message, parsedOutput |-> NoRet,
     renderedPrompt |-> <<>>, rawOutput |-> <<>>]

\* the calls
ProxyTemplates ==
    { <<"x">>, <<"x", " ">> \o Placeholder("a"), Placeholder("a") \o Placeholder("c") }
ProxyVariables == {vs \in Variables : Len(vs) <= 1}
ProxyOptions ==
    { NoOptions, Options({}),
      Options({<<"maxTokens", "100">>, <<"expectsJSON", "true">>}) }
RawOutputs == { <<"x">>, ObjectText("flat", <<>>), ObjectText("flat", <<",">>) }
Verdicts == {[given |-> TRUE, pass |-> b, message |-> m] : b \in BOOLEAN, m \in {"m1", "m2"}}
RunnerArgs ==
    {[entry |-> "proxy.complete", template |-> t, vars |-> vs, options |-> o,
      expectsJSON |-> FALSE] :
        t \in ProxyTemplates, vs \in ProxyVariables, o \in ProxyOptions}
    \cup
    {[entry |-> "runTask", template |-> t, vars |-> vs, options |-> NoOptions,
      expectsJSON |-> j] :
        t \in ProxyTemplates, vs \in ProxyVariables, j \in BOOLEAN}

RunnerInit ==
    /\ CallsIdle
    /\ DecoderIdle
    /\ arg \in RunnerArgs
    /\ ret = NoRet
    /\ ppc = "ready"
    /\ NoProxyCall

\* how a throw of the step `step` ends the call: runTask's catch block makes
\* a result of it when the step lies inside the try, proxy.complete rejects
Throw(step, message) ==
    /\ run' = [run EXCEPT !.thrown = message]
    /\ ret' = IF arg.entry = "runTask" /\ step \in Guarded
              THEN Failed(message, proxy.lastCall)
              ELSE Rejected(message)
    /\ ppc' = "returned"

\* proxy.complete up to its await: render the prompt, call the inner adapter.
\* Under runTask the call comes from BaseTask.run with the task's options.
ProxyComplete ==
    /\ ppc = "ready"
    /\ LET options == IF arg.entry = "runTask" THEN TaskOptions(arg.expectsJSON)
                      ELSE arg.options
       IN  proxy' = [proxy EXCEPT
                !.renderedPrompt = SubstituteTemplate(arg.template, ProcessedVars(arg.vars)),
                !.inner = [called |-> TRUE, prompt |-> arg.template,
                           variables |-> arg.vars,
                           given |-> options.given, options |-> options.members]]
    /\ ppc' = "inner.complete"
    /\ UNCHANGED <<arg, ret, run>>
    /\ UNCHANGED outsidePure

\* inner.complete fulfils with rawOutput: lastCall is set, rawOutput returned
InnerReturns(rawOutput) ==
    /\ ppc = "inner.complete"
    /\ proxy' = [proxy EXCEPT !.lastCall =
            [set |-> TRUE,
             renderedPrompt |-> proxy.renderedPrompt,
             promptCharCount |-> Len(proxy.renderedPrompt),
             options |-> OrEmpty([given |-> proxy.inner.given,
                                  members |-> proxy.inner.options]),
             rawOutput |-> rawOutput,
             outputCharCount |-> Len(rawOutput)]]
    /\ IF arg.entry = "runTask"
       THEN ppc' = "parseOutput" /\ UNCHANGED ret
       ELSE ppc' = "returned" /\ ret' = Val(rawOutput)
    /\ UNCHANGED <<arg, run>>
    /\ UNCHANGED outsidePure

\* inner.complete rejects: lastCall stays as it was
InnerThrows(e) ==
    /\ ppc = "inner.complete"
    /\ Throw("inner.complete", ErrorText(e))
    /\ UNCHANGED <<arg, proxy>>
    /\ UNCHANGED outsidePure

\* BaseTask.run: return this.parseOutput(raw), here this.extractJSON(raw)
ParseOutput ==
    /\ ppc = "parseOutput"
    /\ LET parsed == TaskExtractJSON(proxy.lastCall.rawOutput) IN
       IF parsed.kind = "value"
       THEN /\ run' = [run EXCEPT !.output = parsed]
            /\ ppc' = "validate"
            /\ UNCHANGED ret
       ELSE Throw("parseOutput", ExtractMessage(parsed.err))
    /\ UNCHANGED <<arg, proxy>>
    /\ UNCHANGED outsidePure

\* testCase.validate(output) returns its verdict: the result of the try block
Validate(verdict) ==
    /\ ppc = "validate"
    /\ run' = [run EXCEPT !.verdict = verdict]
    /\ ret' = Passed(verdict, run.output, proxy.lastCall)
    /\ ppc' = "returned"
    /\ UNCHANGED <<arg, proxy>>
    /\ UNCHANGED outsidePure

\* testCase.validate(output) throws
ValidateThrows(e) ==
    /\ ppc = "validate"
    /\ Throw("validate", ErrorText(e))
    /\ UNCHANGED <<arg, proxy>>
    /\ UNCHANGED outsidePure

RunnerNext ==
    \/ ProxyComplete
    \/ \E rawOutput \in RawOutputs : InnerReturns(rawOutput)
    \/ \E e \in Thrown : InnerThrows(e)
    \/ ParseOutput
    \/ \E verdict \in Verdicts : Validate(verdict)
    \/ \E e \in Thrown : ValidateThrows(e)

RunnerSpec == RunnerInit /\ [][RunnerNext]_vars

(***************************************************************************)
(* Claims about the task runner                                            *)
(***************************************************************************)
\* proxy.complete was called directly and fulfilled
ProxyFulfilled == arg.entry = "proxy.complete" /\ ppc = "returned" /\ ret.kind = "value"

\* what lastCall records apart from the rendered prompt: the count of the
\* prompt, the options, the inner adapter's return value and its length,
\* and what the inner adapter was handed
RecordsCall ==
    /\ proxy.lastCall.set
    /\ proxy.lastCall.promptCharCount = Len(proxy.lastCall.renderedPrompt)
    /\ proxy.lastCall.options = arg.options.members
    /\ proxy.lastCall.rawOutput = ret.val
    /\ proxy.lastCall.outputCharCount = Len(ret.val)
    /\ proxy.inner.called
    /\ proxy.inner.prompt = arg.template
    /\ proxy.inner.variables = arg.vars
    /\ proxy.inner.given = arg.options.given
    /\ proxy.inner.options = arg.options.members

\* C26 (as claimed): after a fulfilled proxy.complete(prompt, variables,
\* options) lastCall holds the prompt with every {{name}} of a supplied
\* variable replaced by its value (arrays joined with newline), the count
\* of its characters, the options passed, the inner adapter's return value
\* and its length; the inner adapter was handed the template and the
\* variables as they came.
C26_ProxyRecordsCall ==
    ProxyFulfilled =>
        /\ RecordsCall
        /\ proxy.lastCall.renderedPrompt = Rendering(arg.template, arg.vars, 1)

\* C27: runTask never rejects.  When the adapter call, the parsing of the
\* output or the validator threw, its result has pass = false, error = the
\* message of what was thrown and parsedOutput null; otherwise pass and
\* validationMessage are the validator's and parsedOutput is the parsed output.
C27_RunTaskNeverRejects ==
    (arg.entry = "runTask" /\ ppc = "returned") =>
        /\ ret.kind = "result"
        /\ IF run.thrown # "none"
           THEN /\ ret.pass = FALSE
                /\ ret.error = run.thrown
                /\ ret.parsedOutput = NoRet
           ELSE /\ run.verdict.given
                /\ ret.pass = run.verdict.pass
                /\ ret.validationMessage = run.verdict.message
                /\ ret.error = "none"
                /\ ret.parsedOutput = run.output
                /\ run.output.kind = "value"
C27_Witness ==
    /\ arg.entry = "runTask"
    /\ ppc = "returned"
    /\ run.thrown = "boom"
    /\ run.output.kind = "value"
    /\ ret.kind = "result"
    /\ ret.error = "boom"

(***************************************************************************)
(* Claims about the end of a stream and about the tool-call buffers        *)
(***************************************************************************)
\* the frames up to the first one of `kinds`, that one included iff `incl`
RECURSIVE UpTo(_, _, _)
UpTo(fs, kinds, incl) ==
    IF fs = <<>> THEN <<>>
    ELSE IF Head(fs) \in kinds THEN (IF incl THEN <<Head(fs)>> ELSE <<>>)
    ELSE <<Head(fs)>> \o UpTo(Tail(fs), kinds, incl)
Sent(kinds) == \E i \in 1..Len(frames) : frames[i] \in kinds

\* C28 (as claimed): in the event-stream decoders, once the line
\* data: [DONE] was sent, the call returns and has given to onChunk what
\* the frames before that line alone yield: text, tool calls and finish
\* reason owe nothing to a frame after it.
C28_SentinelEndsStream ==
    (dpc = "done" /\ framing \in {"sse", "tool"} /\ Sent({"done_mark"})) =>
        Output(framing, dec)
            = Output(framing,
                     Whole(framing,
                           EncodeStream(framing, UpTo(frames, {"done_mark"}, FALSE), TRUE)))

\* the lines of the chunks read, each chunk split on its own as the loop does
RECURSIVE ChunkLines(_)
ChunkLines(cs) ==
    IF cs = <<>> THEN <<>> ELSE SplitLines(Head(cs)) \o ChunkLines(Tail(cs))
\* those lines decoded one by one, none after the first that carried done
RECURSIVE UntilDone(_, _)
UntilDone(st, lines) ==
    IF lines = <<>> \/ st.done THEN st
    ELSE UntilDone(NdLine(st, Head(lines)), Tail(lines))

\* C29 (as claimed): in the line-delimited decoder, once a line with done
\* true was decoded no later line adds to the text or reaches onChunk,
\* whether it comes in the same chunk or in a later one, and no further
\* chunk is read.
C29_DoneEndsStream ==
    (dpc = "done" /\ framing = "ndjson") =>
        LET ref == UntilDone(NewDecoder, ChunkLines(delivered)) IN
        /\ dec.fullText = ref.fullText
        /\ dec.emitted = ref.emitted
        /\ dec.done => \A i \in 1..Len(delivered) - 1 :
                            ~UntilDone(NewDecoder, ChunkLines(SubSeq(delivered, 1, i))).done

\* C30: from one point of the decoding to the next, every entry of the
\* tool-call accumulator stays, and its arguments at the earlier point are
\* a prefix of its arguments at the later one, whatever the frames between
\* the two points were.
C30_ArgumentsAppendOnly ==
    [][framing = "tool" =>
        \A k \in 1..Len(dec.toolCallsMap) :
            \E j \in 1..Len(dec'.toolCallsMap) :
                /\ dec'.toolCallsMap[j].index = dec.toolCallsMap[k].index
                /\ IsPrefix(dec.toolCallsMap[k].arguments,
                            dec'.toolCallsMap[j].arguments)]_vars
\* a buffer that held a fragment after the first chunk and got a further frame
C30_Witness ==
    /\ framing = "tool"
    /\ dpc = "done"
    /\ Len(delivered) = 2
    /\ ~Unterminated(delivered[1])
    /\ OnChunk("tool", NewDecoder, delivered[1]).toolCallsMap # <<>>
    /\ \E k \in 1..Len(OnChunk("tool", NewDecoder, delivered[1]).toolCallsMap) :
            OnChunk("tool", NewDecoder, delivered[1]).toolCallsMap[k].arguments # <<>>
    /\ \E k \in 1..Len(dec.toolCallsMap) : Len(dec.toolCallsMap[k].arguments) >= 2

\* the first non-empty id / name among the fragments fs
RECURSIVE FirstId(_)
FirstId(fs) ==
    IF fs = <<>> THEN ""
    ELSE IF FragmentOf(Head(fs)).id # "" THEN FragmentOf(Head(fs)).id
    ELSE FirstId(Tail(fs))
RECURSIVE FirstName(_)
FirstName(fs) ==
    IF fs = <<>> THEN ""
    ELSE IF FragmentOf(Head(fs)).name # "" THEN FragmentOf(Head(fs)).name
    ELSE FirstName(Tail(fs))

\* C31 (as claimed): an entry's id and name are set once: once the decoding
\* has ended, an entry that holds an id (a name) holds the first non-empty
\* id (name) the backend sent for its index, whatever later fragments for
\* that index carried.
C31_IdAndNameSetOnce ==
    ToolDone =>
        \A k \in 1..Len(dec.toolCallsMap) :
            LET e == dec.toolCallsMap[k] IN
            /\ e.id # "" => e.id = FirstId(FragmentsFor(e.index))
            /\ e.name # "" => e.name = FirstName(FragmentsFor(e.index))

(***************************************************************************)
(* Further claims about the retry loop                                     *)
(***************************************************************************)
\* C32 (as claimed): under the retry loop only a credentials failure ends a
\* call before its budget is used up: a call that ended with the failure of
\* an attempt that was a rate limit, another HTTP error, a timeout or a
\* network error, whatever the error body, has failed as often as the
\* budget allows.
C32_OnlyCredentialsFatal ==
    \A c \in RetryCallers :
        (RetriedCall(c) /\ GaveUp(c)) => failed[c] = maxRetries

\* C33: under the retry loop no wait precedes the first attempt; before each
\* later attempt a the call waits 2^a seconds, and the request of attempt a
\* is issued only once that wait is over; each wait is longer than the one
\* before it.
C33_BackoffDoubles ==
    \A c \in RetryCallers :
        (Retried(adapter, op[c]) /\ attempt[c] >= 1) =>
            /\ Len(waits[c]) = attempt[c] - 1
            /\ \A a \in 2..attempt[c] : waits[c][a - 1] = 2 ^ a * MsPerSecond
            /\ \A a \in 3..attempt[c] : waits[c][a - 2] < waits[c][a - 1]
            /\ requests[c] = IF pc[c] = "backoff" THEN attempt[c] - 1 ELSE attempt[c]
\* a call in its third attempt, after waits of 4 and 8 seconds
C33_Witness ==
    \E c \in RetryCallers :
        /\ Retried(adapter, op[c])
        /\ attempt[c] = 3
        /\ pc[c] = "connecting"
        /\ waits[c] = <<4000, 8000>>
        /\ requests[c] = 3

\* C34 (as claimed): the retry budget is at least 1 whatever the adapter
\* was configured with: a complete() or completeWithTools() call that has
\* ended has invoked the attempt function at least once, and a failure it
\* ended with was raised by an attempt (or by complete() on the text of a
\* successful attempt), never made up by the loop.
C34_BudgetAtLeastOne ==
    \A c \in RetryCallers :
        (Retried(adapter, op[c]) /\ Ended(c)) =>
            /\ maxRetries >= 1
            /\ requests[c] >= 1
            /\ fnOutcome[c].kind = "error" =>
                    fnOutcome[c].val \in AttemptErrors \cup {"empty", "nojson"}

(***************************************************************************)
(* Further claims about extractJSON and template substitution              *)
(***************************************************************************)
\* the JSON value an extractJSON result stands for: BaseTask's is parsed,
\* BaseLLMAdapter's is the text of the object
Denoted(fn, r) ==
    IF fn = "BaseTask.extractJSON" THEN r.val ELSE JSONParseText(r.val).val

\* C35 (as claimed): for a text made of a thinking block that holds braces
\* and then a JSON object, extractJSON (of BaseTask and of BaseLLMAdapter)
\* returns that object: the block takes no part in the extraction.
C35_ThinkingBlockIgnored ==
    (/\ ppc \in {"BaseTask.extractJSON", "BaseLLMAdapter.extractJSON"}
     /\ arg.prose = ThoughtBlock)
    => /\ ret.kind = "value"
       /\ Denoted(ppc, ret) = JSONParseText(ObjectText(arg.shape, <<>>)).val

(***************************************************************************)
(* Claim about the slot of a call under the retry loop                     *)
(***************************************************************************)
\* how often a slot was marked as caller c's
TimesGranted(c) == Len(SelectSeq(grants, LAMBDA d : d = c))

\* C36: a complete() or completeWithTools() call holds one slot from its
\* acquire to its final outcome: while it is between these, through every
\* attempt and every backoff wait, it was granted a slot exactly once and
\* has not released it; the running count is the number of calls in that
\* stretch, the releases number the calls that have ended, and no call is
\* ever granted a second slot.
C36_SlotHeldAcrossAttempts ==
    /\ \A c \in RetryCallers :
            /\ TimesGranted(c) <= 1
            /\ (op[c] \in {"complete", "completeWithTools"} /\ HoldsSlot(c)) =>
                    TimesGranted(c) = 1
    /\ active = Cardinality({c \in RetryCallers : HoldsSlot(c)})
    /\ released = Cardinality({c \in RetryCallers : pc[c] = "done"})
\* a call asleep between its first and its second attempt, counted in running
C36_Witness ==
    \E c \in RetryCallers :
        /\ Retried(adapter, op[c])
        /\ pc[c] = "backoff"
        /\ attempt[c] = 2
        /\ active = 1
        /\ released = 0
        /\ TimesGranted(c) = 1


(***************************************************************************)
(* Claims about the order of the variables                                 *)
(***************************************************************************)
\* the same variables listed in the opposite order
Reversed(vs) == [n \in 1..Len(vs) |-> vs[Len(vs) + 1 - n]]
\* a value that holds the text of a placeholder
Nested(v) == v.type = "string" /\ \E k \in Keys : v.str = Placeholder(k)

\* C37 (as claimed): a {{k}} inside a substituted value is not substituted
\* again, so the prompt preparePrompt renders is the same when the variables
\* are listed in the opposite order.
C37_OrderIndependent ==
    ppc \in {"preparePrompt", "performComplete"} =>
        ret = Val(PreparePrompt(arg.template, Reversed(arg.vars)))

\* C38 (as claimed): BaseTask.renderPrompt returns the prompt that run sends
\* for the same input, the one preparePrompt renders, also when a variable
\* is an array.
C38_RenderPromptIsSentPrompt ==
    ppc = "renderPrompt" => ret = Val(PreparePrompt(arg.template, arg.vars))

(***************************************************************************)
(* Claims about the values of finishReason                                 *)
(***************************************************************************)
\* ToolCallResponse.finishReason: 'stop' | 'tool_calls' | 'length' | 'content_filter'
FinishReasons == {"stop", "tool_calls", "length", "content_filter"}

\* C39 (as claimed): the finishReason of the response completeWithTools
\* returns is one of stop, tool_calls, length, content_filter whatever
\* finish_reason the backend sent.
C39_FinishReasonInDomain ==
    ToolDone => Returned(framing, dec).finishReason \in FinishReasons

(***************************************************************************)
(* BenchmarkSuite.run (benchmark/BenchmarkSuite.ts)                        *)
(***************************************************************************)
NumTasks == 2       \* tasks added with addTask
NumModels == 2      \* models added with addModel, at most
MaxCases == 1       \* test cases of a task, at most

\* this.tasks, by the order of addTask
SuiteTasks == [t \in 1..NumTasks |-> t]
\* run.durationMs: Date.now() - start, in ms
Durations == {0, 5}
\* what the suite reads of a TaskRunResult
TaskRunResults == [pass : BOOLEAN, durationMs : Durations]
\* what runTaskDefinition resolves to: one result per test case
ModelRuns == UNION {[1..n -> TaskRunResults] : n \in 0..MaxCases}

\* Math.min(...values) and Math.max(...values) of a non-empty set
MathMin(values) == CHOOSE m \in values : \A v \in values : m <= v
MathMax(values) == CHOOSE m \in values : \A v \in values : m >= v
\* durations.reduce((a, b) => a + b, 0)
RECURSIVE Reduce(_)
Reduce(durations) ==
    IF durations = <<>> THEN 0 ELSE Head(durations) + Reduce(Tail(durations))
\* runs.filter(r => r.pass).length
PassedIn(runs) == Len(SelectSeq(runs, LAMBDA r : r.pass))

\* Math.min(...durations, 0)
MinDuration(durations) == MathMin({durations[k] : k \in 1..Len(durations)} \cup {0})
\* Math.max(...durations, 0)
MaxDuration(durations) == MathMax({durations[k] : k \in 1..Len(durations)} \cup {0})

\* the BenchmarkResult pushed when the models of a task are through
Aggregate(taskDef, runs) ==
    LET durations == [k \in 1..Len(runs) |-> runs[k].durationMs]
    IN  [taskId |-> taskDef,
         runs |-> runs,
         passRate |-> IF Len(runs) > 0 THEN Ratio(PassedIn(runs), Len(runs)) ELSE Zero,
         avgDurationMs |-> IF Len(durations) > 0
                           THEN Ratio(Reduce(durations), Len(durations)) ELSE Zero,
         minDurationMs |-> MinDuration(durations),
         maxDurationMs |-> MaxDuration(durations)]

\* the SuiteResult returned after the last task
SuiteResultOf(s) ==
    [returned |-> TRUE,
     tasks |-> s.taskResults,
     totalTasks |-> Len(s.tasksToRun),
     totalRuns |-> s.totalRuns,
     overallPassRate |-> IF s.totalRuns > 0 THEN Ratio(s.totalPassed, s.totalRuns) ELSE Zero]

\* the two loops from the head of the model loop up to the next await of
\* runTaskDefinition, or to the return
RECURSIVE Continue(_)
Continue(s) ==
    IF s.task > Len(s.tasksToRun)
    THEN [s EXCEPT !.pc = "returned", !.result = SuiteResultOf(s)]
    ELSE IF s.model <= s.models
    THEN [s EXCEPT !.pc = "runTaskDefinition"]
    ELSE Continue([s EXCEPT !.taskResults = Append(@, Aggregate(s.tasksToRun[s.task], s.runs)),
                            !.runs = <<>>,
                            !.task = @ + 1,
                            !.model = 1])

\* for (const run of modelRuns): runs.push(run); totalRuns++; if (run.pass) totalPassed++
PushRuns(s, modelRuns) ==
    [s EXCEPT !.runs = @ \o modelRuns,
              !.totalRuns = @ + Len(modelRuns),
              !.totalPassed = @ + PassedIn(modelRuns)]

SuiteInit ==
    /\ CallsIdle
    /\ DecoderIdle
    /\ arg = <<>>
    /\ ret = NoRet
    /\ ppc = "idle"
    /\ proxy = NewProxy
    /\ run = NoRun
    /\ \E n \in 0..NumModels : suite = [NoSuite EXCEPT !.pc = "ready", !.models = n]

\* run(options): the tasks that options.filterTasks keeps (all of them
\* without a filter), then the loops up to the first await
SuiteRun ==
    /\ suite.pc = "ready"
    /\ \E keep \in SUBSET (1..NumTasks) :
         suite' = Continue([suite EXCEPT
                      !.tasksToRun = SelectSeq(SuiteTasks, LAMBDA t : t \in keep),
                      !.task = 1,
                      !.model = 1])
    /\ UNCHANGED outsideSuite

\* await runTaskDefinition(adapter, taskDef) resolves: the runs are pushed
\* and counted, then the loops go on to the next await or to the return
ModelRunsReturned ==
    /\ suite.pc = "runTaskDefinition"
    /\ \E modelRuns \in ModelRuns :
         suite' = Continue([PushRuns(suite, modelRuns) EXCEPT !.model = @ + 1])
    /\ UNCHANGED outsideSuite

SuiteNext == SuiteRun \/ ModelRunsReturned

SuiteSpec == SuiteInit /\ [][SuiteNext]_vars

(***************************************************************************)
(* Claims about the aggregates of a suite                                  *)
(***************************************************************************)
\* min <= avg <= max for an average kept as a quotient
Between(lo, avg, hi) == lo * avg.den <= avg.num /\ avg.num <= hi * avg.den
RECURSIVE RunsIn(_)
RunsIn(results) ==
    IF results = <<>> THEN <<>> ELSE Head(results).runs \o RunsIn(Tail(results))

\* C40 (as claimed): in every BenchmarkResult with at least one run
\* minDurationMs is the smallest run duration and maxDurationMs the largest,
\* so min <= avg <= max; and the returned totalRuns is the number of runs
\* over all tasks, with overallPassRate = passed runs / totalRuns.
C40_SuiteAggregates ==
    /\ \A n \in 1..Len(suite.taskResults) :
         LET b == suite.taskResults[n]
             ds == {b.runs[k].durationMs : k \in 1..Len(b.runs)}
         IN  Len(b.runs) >= 1 =>
                /\ b.minDurationMs = MathMin(ds)
                /\ b.maxDurationMs = MathMax(ds)
                /\ Between(b.minDurationMs, b.avgDurationMs, b.maxDurationMs)
    /\ suite.result.returned =>
         LET all == RunsIn(suite.result.tasks)
         IN  /\ suite.result.totalRuns = Len(all)
             /\ Len(all) > 0 =>
                  suite.result.overallPassRate = Ratio(PassedIn(all), Len(all))

====
